---- MODULE Spec2Model ----
(***************************************************************************)
(* Downshiftarr: the decision pipeline of one invocation (main), with the  *)
(* quality classifier, the session resolver (find_session), the fallback   *)
(* selector (pick_best_fallback_media_index), the client locator           *)
(* (find_client) and the termination escalation (terminate_best_effort).   *)
(*                                                                         *)
(* Python strings on which the code computes (upper, lower, strip, "in")   *)
(* are sequences of one-character strings; identifiers that are only       *)
(* compared are TLA+ strings.  Optional values use None / NoneChars /      *)
(* NoneInt.                                                                *)
(***************************************************************************)
EXTENDS Integers, Sequences, FiniteSets, TLC

VARIABLES
    cfg,            \* the configuration globals read from the environment
    pc,             \* position of the invocation in main
    ev,             \* InputEvent built by parse_args
    token,          \* PLEX_EFFECTIVE_TOKEN
    attempt,        \* find_session: the loop variable
    last_err,       \* find_session: an attempt raised
    sessions,       \* find_session: the list the latest query returned
    ctx,            \* SessionContext (None before resolution)
    cur,            \* (cur_mid, cur_h, cur_dr) of current_media_identity
    item,           \* item_for_versions
    target,         \* target_idx, the selector's result
    client,         \* the client handle of find_client
    seek_attempt,   \* main: the loop variable of the seekTo retries
    calls,          \* every collaborator call made so far, in order
    stage,          \* the failure stage reached
    outcome,        \* the terminal outcome of the invocation
    exit_code       \* the process exit status

vars == <<cfg, pc, ev, token, attempt, last_err, sessions, ctx, cur, item,
          target, client, seek_attempt, calls, stage, outcome, exit_code>>

----------------------------------------------------------------------------
(* Optional values *)

None == "<None>"
NoneChars == <<"<None>">>
NoneInt == 0 - 1

\* Python truthiness of an Optional[str] identifier
Truthy(s) == s # None /\ s # ""

\* Python truthiness of an Optional[str] held as characters
TruthyChars(s) == s # NoneChars /\ s # <<>>

----------------------------------------------------------------------------
(* str methods *)

UpperChars == <<"A","B","C","D","E","F","G","H","I","J","K","L","M",
                "N","O","P","Q","R","S","T","U","V","W","X","Y","Z">>
LowerChars == <<"a","b","c","d","e","f","g","h","i","j","k","l","m",
                "n","o","p","q","r","s","t","u","v","w","x","y","z">>

upper_char(c) ==
    IF \E i \in DOMAIN LowerChars : LowerChars[i] = c
    THEN UpperChars[CHOOSE i \in DOMAIN LowerChars : LowerChars[i] = c]
    ELSE c

lower_char(c) ==
    IF \E i \in DOMAIN UpperChars : UpperChars[i] = c
    THEN LowerChars[CHOOSE i \in DOMAIN UpperChars : UpperChars[i] = c]
    ELSE c

str_upper(s) == [i \in 1..Len(s) |-> upper_char(s[i])]

str_lower(s) == [i \in 1..Len(s) |-> lower_char(s[i])]

IsSpace(c) == c \in {" ", "\t", "\n"}

RECURSIVE str_lstrip(_)
str_lstrip(s) ==
    IF s # <<>> /\ IsSpace(Head(s)) THEN str_lstrip(Tail(s)) ELSE s

RECURSIVE str_rstrip(_)
str_rstrip(s) ==
    IF s # <<>> /\ IsSpace(s[Len(s)])
    THEN str_rstrip(SubSeq(s, 1, Len(s) - 1))
    ELSE s

str_strip(s) == str_rstrip(str_lstrip(s))

\* Python: sub in s
str_in(sub, s) ==
    \E i \in 0..(Len(s) - Len(sub)) : SubSeq(s, i + 1, i + Len(sub)) = sub

Digits == <<"0","1","2","3","4","5","6","7","8","9">>

IsDigit(c) == \E i \in DOMAIN Digits : Digits[i] = c

DigitValue(c) == (CHOOSE i \in DOMAIN Digits : Digits[i] = c) - 1

RECURSIVE DigitsValue(_)
DigitsValue(s) ==
    IF s = <<>> THEN 0
    ELSE 10 * DigitsValue(SubSeq(s, 1, Len(s) - 1)) + DigitValue(s[Len(s)])

\* int(s) for the strings the model uses: NoneInt where int() raises
str_int(s) ==
    IF s # <<>> /\ \A i \in DOMAIN s : IsDigit(s[i]) THEN DigitsValue(s) ELSE NoneInt

----------------------------------------------------------------------------
(* Configuration *)

MAX_ALLOWED_HEIGHT == 2000

PREFER_HEIGHTS == <<1080, 720, 576, 480>>

SESSION_LOOKUP_RETRIES == 4

SEEK_RETRIES == 3

EXEMPT_USERS == {"bob"}

S_sdr == <<"S","D","R">>
S_hdr == <<"H","D","R">>
S_hlg == <<"H","L","G">>
S_dv == <<"D","V">>
S_dovi == <<"D","O","V","I">>
S_dolby == <<"D","O","L","B","Y">>
S_vision == <<"V","I","S","I","O","N">>
S_dolby_vision == <<"D","O","L","B","Y"," ","V","I","S","I","O","N">>
S_unknown == <<"U","N","K","N","O","W","N">>
S_none == <<"N","O","N","E">>
S_transcode == <<"t","r","a","n","s","c","o","d","e">>

ALLOW_VIDEO_DECISIONS ==
    { <<"d","i","r","e","c","t"," ","p","l","a","y">>,
      <<"d","i","r","e","c","t","p","l","a","y">>,
      <<"d","i","r","e","c","t","_","p","l","a","y">>,
      <<"d","i","r","e","c","t"," ","s","t","r","e","a","m">>,
      <<"d","i","r","e","c","t","s","t","r","e","a","m">>,
      <<"d","i","r","e","c","t","_","s","t","r","e","a","m">>,
      <<"c","o","p","y">> }

----------------------------------------------------------------------------
(* Quality classifier *)

normalize_decision(dec) ==
    str_lower(str_strip(IF dec = NoneChars THEN <<>> ELSE dec))

\* variant: the decision is tested as given, without normalize_decision
is_video_transcoding_raw(video_decision) ==
    video_decision \notin ALLOW_VIDEO_DECISIONS

\* variant: every decision outside ALLOW_VIDEO_DECISIONS counts
is_video_transcoding_unless_allowed(video_decision) ==
    normalize_decision(video_decision) \notin ALLOW_VIDEO_DECISIONS

is_video_transcoding(video_decision) ==
    LET d == normalize_decision(video_decision)
    IN  str_in(S_transcode, d) /\ d \notin ALLOW_VIDEO_DECISIONS

\* variant: the Dolby Vision rule placed before the SDR rule
classify_dynamic_range_vision_first(dr) ==
    LET s == str_strip(str_upper(IF dr = NoneChars THEN <<>> ELSE dr))
    IN  IF s = <<>> \/ s \in {S_unknown, S_none} THEN S_unknown
        ELSE IF str_in(S_dovi, s) \/ str_in(S_dolby, s) \/ str_in(S_vision, s) \/ s = S_dv
             THEN S_dolby_vision
        ELSE IF str_in(S_sdr, s) THEN S_sdr
        ELSE S_hdr

classify_dynamic_range(dr) ==
    LET s == str_strip(str_upper(IF dr = NoneChars THEN <<>> ELSE dr))
    IN  IF s = <<>> \/ s \in {S_unknown, S_none} THEN S_unknown
        ELSE IF str_in(S_sdr, s) THEN S_sdr
        ELSE IF str_in(S_dovi, s) \/ str_in(S_dolby, s) \/ str_in(S_vision, s) \/ s = S_dv
             THEN S_dolby_vision
        ELSE IF str_in(S_hdr, s) \/ str_in(S_hlg, s) THEN S_hdr
        ELSE S_hdr

\* variant: a height equal to the threshold does not count
is_high_quality_above(height, dyn_range) ==
    IF height # NoneInt /\ height > MAX_ALLOWED_HEIGHT THEN TRUE
    ELSE classify_dynamic_range(dyn_range) \notin {S_sdr, S_unknown}

is_high_quality(height, dyn_range) ==
    IF height # NoneInt /\ height >= MAX_ALLOWED_HEIGHT THEN TRUE
    ELSE classify_dynamic_range(dyn_range) \notin {S_sdr, S_unknown}

----------------------------------------------------------------------------
(* Renditions (plexapi Media objects) and their attribute probing.  A    *)
(* rendition is a record                                                 *)
(*   [id, height, videoResolution, stream_height, videoDynamicRange,     *)
(*    stream_hint, selected, broken]                                     *)
(* where broken means that reading its attributes raises.                *)

S_4k == <<"4","k">>
S_uhd == <<"u","h","d">>
S_2160 == <<"2","1","6","0">>
S_1080 == <<"1","0","8","0">>
S_720 == <<"7","2","0">>
S_576 == <<"5","7","6">>
S_480 == <<"4","8","0">>

parse_resolution_hint(res) ==
    IF ~TruthyChars(res) THEN NoneInt
    ELSE LET s == str_lower(str_strip(res))
         IN  IF s \in {S_4k, S_uhd} \/ str_in(S_2160, s) THEN 2160
             ELSE IF str_in(S_1080, s) THEN 1080
             ELSE IF str_in(S_720, s) THEN 720
             ELSE IF str_in(S_576, s) THEN 576
             ELSE IF str_in(S_480, s) THEN 480
             ELSE IF str_int(s) # NoneInt /\ str_int(s) > 0 THEN str_int(s)
             ELSE NoneInt

\* "if h:" : None and 0 are both skipped
IntTruthy(h) == h # NoneInt /\ h # 0

media_height(m) ==
    IF IntTruthy(m.height) THEN m.height
    ELSE IF IntTruthy(parse_resolution_hint(m.videoResolution))
         THEN parse_resolution_hint(m.videoResolution)
    ELSE IF IntTruthy(m.stream_height) THEN m.stream_height
    ELSE NoneInt

media_dynamic_range(m) ==
    IF TruthyChars(m.videoDynamicRange) THEN str_strip(str_upper(m.videoDynamicRange))
    ELSE IF m.stream_hint = "dovi" THEN S_dolby_vision
    ELSE IF m.stream_hint = "hdr" THEN S_hdr
    ELSE S_unknown

\* The first rendition the loop of current_media_identity stops at: the first
\* selected one, or the first whose attributes raise; 0 when there is none.
FirstStop(ml) ==
    IF \E i \in DOMAIN ml : ml[i].broken \/ ml[i].selected
    THEN CHOOSE i \in DOMAIN ml :
            /\ ml[i].broken \/ ml[i].selected
            /\ \A j \in DOMAIN ml : (ml[j].broken \/ ml[j].selected) => i <= j
    ELSE 0

\* Index (1-based) of the rendition current_media_identity reads, 0 when none
current_media_position(it) ==
    LET ml == it.media
        k == FirstStop(ml)
    IN  IF k # 0 THEN (IF ml[k].broken THEN 0 ELSE k)
        ELSE IF ml # <<>> THEN 1 ELSE 0

current_media_identity(it) ==
    LET ml == it.media
        k == FirstStop(ml)
    IN  IF k # 0
        THEN IF ml[k].broken THEN <<None, NoneInt, S_unknown>>
             ELSE <<ml[k].id, media_height(ml[k]), media_dynamic_range(ml[k])>>
        ELSE IF ml # <<>>
             THEN <<(IF ml[1].id = None THEN "None" ELSE ml[1].id),
                    media_height(ml[1]), media_dynamic_range(ml[1])>>
             ELSE <<None, NoneInt, S_unknown>>

----------------------------------------------------------------------------
(* Fallback selector *)

IndexOf(x, seq) == CHOOSE i \in DOMAIN seq : seq[i] = x /\ \A j \in DOMAIN seq : seq[j] = x => i <= j

\* variant: among the heights not preferred, the lowest ranks first
candidate_score_lowest_first(h) ==
    IF \E i \in DOMAIN PREFER_HEIGHTS : PREFER_HEIGHTS[i] = h
    THEN <<IndexOf(h, PREFER_HEIGHTS) - 1, 0 - h>>
    ELSE <<Len(PREFER_HEIGHTS) + h, 0 - h>>

\* (pref_rank, -h)
candidate_score(h) ==
    IF \E i \in DOMAIN PREFER_HEIGHTS : PREFER_HEIGHTS[i] = h
    THEN <<IndexOf(h, PREFER_HEIGHTS) - 1, 0 - h>>
    ELSE <<Len(PREFER_HEIGHTS) + (MAX_ALLOWED_HEIGHT - h), 0 - h>>

\* Python's order on pairs
ScoreLess(a, b) == a[1] < b[1] \/ (a[1] = b[1] /\ a[2] < b[2])

\* variant: with ALLOW_HDR_FALLBACK the relaxed pass comes first
selection_passes_relaxed_first ==
    IF cfg.FALLBACK_SDR_ONLY THEN <<TRUE>>
    ELSE IF cfg.ALLOW_HDR_FALLBACK THEN <<FALSE, TRUE>>
    ELSE <<FALSE>>

\* the (sdr_only) flags of the passes, in order
selection_passes ==
    IF cfg.FALLBACK_SDR_ONLY THEN <<TRUE>>
    ELSE IF cfg.ALLOW_HDR_FALLBACK THEN <<TRUE, FALSE>>
    ELSE <<FALSE>>

\* variant: the loop without the exclusion of the current rendition
is_current_media_never(m, current_media_id) == FALSE

\* "if current_media_id and mid == current_media_id: continue"
is_current_media(m, current_media_id) ==
    Truthy(current_media_id) /\ (IF m.id = None THEN "" ELSE m.id) = current_media_id

\* variant: only a rendition of unknown height is skipped
height_excluded_unknown_only(h) == h = NoneInt

\* "if h is None or h >= MAX_ALLOWED_HEIGHT: continue"
height_excluded(h) == h = NoneInt \/ h >= MAX_ALLOWED_HEIGHT

\* variant: the pass flag is not consulted
range_excluded_never(sdr_only, drc) == FALSE

\* "if sdr_only and drc != 'SDR': continue"
range_excluded(sdr_only, drc) == sdr_only /\ drc # S_sdr

\* variant: every rendition that is not higher than the current one passes
acceptable_not_higher(h, drc, current_height, cur_drc) ==
    IF current_height # NoneInt THEN h <= current_height ELSE TRUE

acceptable(h, drc, current_height, cur_drc) ==
    IF current_height # NoneInt
    THEN \/ h < current_height
         \/ (cur_drc # S_sdr /\ drc = S_sdr /\ h <= current_height)
    ELSE TRUE

\* the body of the loop over media_list: m is appended to candidates
is_candidate(m, sdr_only, current_media_id, current_height, current_dr) ==
    /\ ~is_current_media(m, current_media_id)
    /\ ~height_excluded(media_height(m))
    /\ ~range_excluded(sdr_only, classify_dynamic_range(media_dynamic_range(m)))
    /\ acceptable(media_height(m), classify_dynamic_range(media_dynamic_range(m)),
                  current_height, classify_dynamic_range(current_dr))

pass_candidates(ml, sdr_only, current_media_id, current_height, current_dr) ==
    {i \in DOMAIN ml : is_candidate(ml[i], sdr_only, current_media_id, current_height, current_dr)}

\* candidates.sort(key=score) is stable: the first of the minimal ones
best_candidate(ml, cands) ==
    CHOOSE i \in cands : \A j \in cands :
        \/ ScoreLess(candidate_score(media_height(ml[i])), candidate_score(media_height(ml[j])))
        \/ /\ candidate_score(media_height(ml[i])) = candidate_score(media_height(ml[j]))
           /\ i <= j

\* the pass (position in selection_passes) that yields the result, 0 when none
yielding_pass(ml, current_media_id, current_height, current_dr) ==
    LET ps == selection_passes
        ok == {p \in DOMAIN ps :
                 pass_candidates(ml, ps[p], current_media_id, current_height, current_dr) # {}}
    IN  IF ok = {} THEN 0 ELSE CHOOSE p \in ok : \A q \in ok : p <= q

\* result: [kind |-> "index", idx |-> the 0-based mediaIndex], kind "none" for
\* None, kind "raise" when reading a rendition raises
pick_best_fallback_media_index(it, current_media_id, current_height, current_dr) ==
    LET ml == it.media
        p == yielding_pass(ml, current_media_id, current_height, current_dr)
    IN  IF ml = <<>> THEN [kind |-> "none", idx |-> NoneInt]
        ELSE IF \E i \in DOMAIN ml : ml[i].broken THEN [kind |-> "raise", idx |-> NoneInt]
        ELSE IF p = 0 THEN [kind |-> "none", idx |-> NoneInt]
        ELSE [kind |-> "index",
              idx |-> best_candidate(ml, pass_candidates(ml, selection_passes[p],
                          current_media_id, current_height, current_dr)) - 1]

----------------------------------------------------------------------------
(* Data model *)

NoEvent == [parsed |-> FALSE]

NoCtx == [present |-> FALSE]

NoItem == [source |-> "none", media |-> <<>>]

NoClient == [found |-> FALSE]

NoTarget == [kind |-> "unset", idx |-> NoneInt]

NoCurrent == <<None, NoneInt, S_unknown>>

\* one collaborator call: the operation, its argument, how it ended
Call(op, arg, res) == [op |-> op, arg |-> arg, res |-> res]

CharFields == {"video_decision", "video_dynamic_range"}

\* parse_args.  Flag mode strips each value and turns a blank one into None;
\* the positional form keeps its arguments as they are (a blank stays "") and
\* has no session key and no video_resolution.
parse_args(mode, raw) ==
    [f \in DOMAIN raw |->
        IF f = "parsed" THEN TRUE
        ELSE IF mode = "flags"
        THEN IF f \in CharFields
             THEN (IF raw[f] = NoneChars \/ str_strip(raw[f]) = <<>>
                   THEN NoneChars ELSE str_strip(raw[f]))
             ELSE (IF raw[f] = "" THEN None ELSE raw[f])
        ELSE IF f \in {"session_key", "video_resolution"} THEN None
        ELSE IF f \in CharFields
             THEN (IF raw[f] = NoneChars /\ f = "video_decision" THEN <<>> ELSE raw[f])
        ELSE IF raw[f] = None THEN "" ELSE raw[f]]

----------------------------------------------------------------------------
(* Session resolver *)

\* str(getattr(s, name, "") or "")
AttrStr(v) == IF v = None THEN "" ELSE v

Min2(a, b) == IF a <= b THEN a ELSE b

\* variant: a criterion counts whenever the two values are equal
match_score_equal_only(e, s) ==
    LET rk == AttrStr(s.ratingKey)
        sk == AttrStr(s.sessionKey)
        sid == AttrStr(s.sessionId)
        uname == AttrStr(s.username)
        mid == AttrStr(s.machineIdentifier)
        c0 == e.session_key = sk
        c1 == e.session_id = sid
        c5 == e.rating_key = rk /\ e.username = uname
        c10 == e.rating_key = rk /\ e.machine_id = mid
        s0 == IF c0 THEN Min2(1000, 0) ELSE 1000
        s1 == IF c1 THEN Min2(s0, 1) ELSE s0
        s5 == IF c5 THEN Min2(s1, 5) ELSE s1
    IN  IF c10 THEN Min2(s5, 10) ELSE s5

\* scoring: lower is better, 1000 is "no criterion"
match_score(e, s) ==
    LET rk == AttrStr(s.ratingKey)
        sk == AttrStr(s.sessionKey)
        sid == AttrStr(s.sessionId)
        uname == AttrStr(s.username)
        mid == AttrStr(s.machineIdentifier)
        c0 == Truthy(e.session_key) /\ sk # "" /\ e.session_key = sk
        c1 == Truthy(e.session_id) /\ sid # "" /\ e.session_id = sid
        c5 == /\ Truthy(e.rating_key) /\ rk # "" /\ e.rating_key = rk
              /\ Truthy(e.username) /\ uname # "" /\ e.username = uname
        c10 == /\ Truthy(e.rating_key) /\ rk # "" /\ e.rating_key = rk
               /\ Truthy(e.machine_id) /\ mid # "" /\ e.machine_id = mid
        s0 == IF c0 THEN Min2(1000, 0) ELSE 1000
        s1 == IF c1 THEN Min2(s0, 1) ELSE s0
        s5 == IF c5 THEN Min2(s1, 5) ELSE s1
    IN  IF c10 THEN Min2(s5, 10) ELSE s5

\* variant: the first candidate that satisfies a criterion is kept
replaces_best_first(score, best_score) ==
    score < 1000 /\ best_score = NoneInt

\* "if score < 1000: if best_score is None or score < best_score"
replaces_best(score, best_score) ==
    score < 1000 /\ (best_score = NoneInt \/ score < best_score)

\* the loop "for s in sessions" from position i on: the position of
\* best_payload at its end (0 when None)
RECURSIVE scan_sessions(_, _, _, _, _)
scan_sessions(e, ss, i, best_score, best_pos) ==
    IF i > Len(ss) THEN best_pos
    ELSE IF replaces_best(match_score(e, ss[i]), best_score)
         THEN scan_sessions(e, ss, i + 1, match_score(e, ss[i]), i)
         ELSE scan_sessions(e, ss, i + 1, best_score, best_pos)

\* reading a candidate's attributes raises: the try block of the attempt
\* encloses the whole loop
scan_raises(ss) == \E i \in DOMAIN ss : ss[i].broken

session_context(s) ==
    [present |-> TRUE,
     session_item |-> s,
     session_key |-> IF AttrStr(s.sessionKey) = "" THEN None ELSE s.sessionKey,
     session_id |-> IF AttrStr(s.sessionId) = "" THEN None ELSE s.sessionId,
     username |-> IF AttrStr(s.username) = "" THEN None ELSE s.username,
     machine_id |-> IF AttrStr(s.machineIdentifier) = "" THEN None ELSE s.machineIdentifier,
     player_title |-> s.title,
     player_address |-> s.address,
     player_port |-> s.port,
     view_offset_ms |-> IF s.viewOffset = NoneInt THEN 0 ELSE s.viewOffset]

\* what plex.sessions() does in one attempt: it raises, or returns a list
QueryRaised == [raised |-> TRUE, list |-> <<>>]

QueryReturned(ss) == [raised |-> FALSE, list |-> ss]

\* variant: a sleep after every attempt, the last included
sleeps_after_every(n) == TRUE

\* the sleep between attempts: "if attempt < SESSION_LOOKUP_RETRIES"
sleeps_after(n) == n < SESSION_LOOKUP_RETRIES

\* one attempt of find_session, res being what plex.sessions() did
find_session_attempt(e, res) ==
    LET raised == res.raised \/ scan_raises(res.list)
        pos == IF raised THEN 0 ELSE scan_sessions(e, res.list, 1, NoneInt, 0)
    IN  /\ calls' = calls \o <<Call("sessions", attempt, "")>>
                          \o (IF pos = 0 /\ sleeps_after(attempt)
                              THEN <<Call("sleep", attempt, "ok")>> ELSE <<>>)
        /\ sessions' = res.list
        /\ last_err' = (last_err \/ raised)
        /\ IF pos # 0
           THEN /\ ctx' = session_context(res.list[pos])
                /\ pc' = "classify"
                /\ attempt' = attempt
           ELSE /\ ctx' = ctx
                /\ IF attempt < SESSION_LOOKUP_RETRIES
                   THEN pc' = pc /\ attempt' = attempt + 1
                   ELSE pc' = "session_not_found" /\ attempt' = attempt

----------------------------------------------------------------------------
(* Termination *)

\* variant: the request to Tautulli is sent a second time
terminate_via_tautulli_repeated(session_key, session_id, message, tau) ==
    IF tau = "unconfigured" THEN [ok |-> FALSE, calls |-> <<>>]
    ELSE IF Truthy(session_key)
    THEN [ok |-> tau = "success",
          calls |-> <<Call("terminate_session", <<"session_key", session_key, message>>, tau),
                      Call("terminate_session", <<"session_key", session_key, message>>, tau)>>]
    ELSE IF Truthy(session_id)
    THEN [ok |-> tau = "success",
          calls |-> <<Call("terminate_session", <<"session_id", session_id, message>>, tau),
                      Call("terminate_session", <<"session_id", session_id, message>>, tau)>>]
    ELSE [ok |-> FALSE, calls |-> <<>>]

\* tau is "unconfigured" when TAUTULLI_URL or TAUTULLI_APIKEY is not set, and
\* otherwise what the terminate_session request did: "success", "error" (a
\* response whose result is not success) or "none" (no response)
terminate_via_tautulli(session_key, session_id, message, tau) ==
    IF tau = "unconfigured" THEN [ok |-> FALSE, calls |-> <<>>]
    ELSE IF Truthy(session_key)
    THEN [ok |-> tau = "success",
          calls |-> <<Call("terminate_session", <<"session_key", session_key, message>>, tau)>>]
    ELSE IF Truthy(session_id)
    THEN [ok |-> tau = "success",
          calls |-> <<Call("terminate_session", <<"session_id", session_id, message>>, tau)>>]
    ELSE [ok |-> FALSE, calls |-> <<>>]

\* variant: the raw request is sent whether or not a session id is known
plex_terminate_session_any_id(c, session_id, reason, stop, raw) ==
    LET stop_calls == IF c.present /\ c.session_item.has_stop
                      THEN <<Call("stop", reason, stop)>> ELSE <<>>
        stopped == c.present /\ c.session_item.has_stop /\ stop = "ok"
    IN  IF stopped THEN [ok |-> TRUE, calls |-> stop_calls]
        ELSE IF token = None THEN [ok |-> FALSE, calls |-> stop_calls]
        ELSE [ok |-> raw = "ok",
              calls |-> stop_calls \o <<Call("terminate_raw", <<session_id, reason>>, raw)>>]

\* stop is what session_item.stop() did ("ok", "raise"); raw what the GET of
\* /status/sessions/terminate did ("ok": a 2xx status; "fail": another status
\* or an exception)
plex_terminate_session(c, session_id, reason, stop, raw) ==
    LET stop_calls == IF c.present /\ c.session_item.has_stop
                      THEN <<Call("stop", reason, stop)>> ELSE <<>>
        stopped == c.present /\ c.session_item.has_stop /\ stop = "ok"
    IN  IF stopped THEN [ok |-> TRUE, calls |-> stop_calls]
        ELSE IF token = None \/ ~Truthy(session_id) THEN [ok |-> FALSE, calls |-> stop_calls]
        ELSE [ok |-> raw = "ok",
              calls |-> stop_calls \o <<Call("terminate_raw", <<session_id, reason>>, raw)>>]

\* variant: the Plex termination follows whatever Tautulli answered
terminate_best_effort_every_method(e, c, message, tau, stop, raw) ==
    LET session_key == IF c.present /\ Truthy(c.session_key) THEN c.session_key ELSE e.session_key
        session_id == IF c.present /\ Truthy(c.session_id) THEN c.session_id ELSE e.session_id
        t == terminate_via_tautulli(session_key, session_id, message, tau)
        px == plex_terminate_session(c, session_id, message, stop, raw)
    IN  [ok |-> t.ok \/ px.ok, calls |-> t.calls \o px.calls]

terminate_best_effort(e, c, message, tau, stop, raw) ==
    LET session_key == IF c.present /\ Truthy(c.session_key) THEN c.session_key ELSE e.session_key
        session_id == IF c.present /\ Truthy(c.session_id) THEN c.session_id ELSE e.session_id
        t == terminate_via_tautulli(session_key, session_id, message, tau)
        px == plex_terminate_session(c, session_id, message, stop, raw)
    IN  IF t.ok THEN t ELSE [ok |-> px.ok, calls |-> t.calls \o px.calls]

----------------------------------------------------------------------------
(* Client locator *)

target_ids(c, fallback_machine_id) ==
    LET first == IF Truthy(c.machine_id) THEN <<c.machine_id>> ELSE <<>>
    IN  IF Truthy(fallback_machine_id) /\ (first = <<>> \/ first[1] # fallback_machine_id)
        THEN Append(first, fallback_machine_id) ELSE first

\* position in tids of the first identifier an enumerated client has, 0 if none
enumerated_match(tids, clients) ==
    LET hit == {i \in DOMAIN tids : \E j \in DOMAIN clients : clients[j] = tids[i]}
    IN  IF hit = {} THEN 0 ELSE CHOOSE i \in hit : \A k \in hit : i <= k

\* position of the first identifier whose construction succeeds, 0 if none
first_ok(tids, outs) ==
    LET hit == {i \in DOMAIN tids : outs[i] = "ok"}
    IN  IF hit = {} THEN 0 ELSE CHOOSE i \in hit : \A k \in hit : i <= k

\* the constructions tried for tids, in order, up to the first that succeeds
construct_calls(op, tids, outs) ==
    LET n == IF first_ok(tids, outs) = 0 THEN Len(tids) ELSE first_ok(tids, outs)
    IN  [i \in 1..n |-> Call(op, tids[i], outs[i])]

Handle(via, id) == [found |-> TRUE, via |-> via, id |-> id]

\* variant: a failure to enumerate the clients ends the search
find_client_enumeration_ends(c, fallback_machine_id, o) ==
    LET tids == target_ids(c, fallback_machine_id)
        m1 == enumerated_match(tids, o.clients.list)
        m3 == first_ok(tids, o.proxy)
        c1 == <<Call("clients", "", o.clients)>>
        c3 == construct_calls("PlexClient_proxy", tids, o.proxy)
    IN  IF o.clients.raised THEN [client |-> NoClient, calls |-> c1]
        ELSE IF m1 # 0 THEN [client |-> Handle("clients", tids[m1]), calls |-> c1]
        ELSE IF m3 # 0 THEN [client |-> Handle("proxy", tids[m3]), calls |-> c1 \o c3]
        ELSE [client |-> NoClient, calls |-> c1 \o c3]

\* o is what the collaborators do: o.clients (plex.clients(): raised, list),
\* o.name (plex.client(title): "ok", "none", "raise"), o.proxy and o.direct
\* (the PlexClient constructions per identifier: "ok", "raise")
find_client(c, fallback_machine_id, o) ==
    LET tids == target_ids(c, fallback_machine_id)
        c1 == <<Call("clients", "", o.clients)>>
        m1 == enumerated_match(tids, o.clients.list)
        try2 == Truthy(c.player_title)
        c2 == IF try2 THEN <<Call("client", c.player_title, o.name)>> ELSE <<>>
        m3 == first_ok(tids, o.proxy)
        c3 == construct_calls("PlexClient_proxy", tids, o.proxy)
        try4 == Truthy(c.player_address) /\ Truthy(c.player_port) /\ tids # <<>>
        m4 == IF try4 THEN first_ok(tids, o.direct) ELSE 0
        c4 == IF try4 THEN construct_calls("PlexClient_direct", tids, o.direct) ELSE <<>>
    IN  IF m1 # 0 THEN [client |-> Handle("clients", tids[m1]), calls |-> c1]
        ELSE IF try2 /\ o.name = "ok"
        THEN [client |-> Handle("name", c.player_title), calls |-> c1 \o c2]
        ELSE IF m3 # 0
        THEN [client |-> Handle("proxy", tids[m3]), calls |-> c1 \o c2 \o c3]
        ELSE IF m4 # 0
        THEN [client |-> Handle("direct", tids[m4]), calls |-> c1 \o c2 \o c3 \o c4]
        ELSE [client |-> NoClient, calls |-> c1 \o c2 \o c3 \o c4]

----------------------------------------------------------------------------
(* main *)

\* variant: a termination reports a failure status
Finish_failure_status(o, code) ==
    /\ pc' = "done"
    /\ outcome' = o
    /\ exit_code' = IF o = "TERMINATED" THEN 1 ELSE code

Finish(o, code) ==
    /\ pc' = "done"
    /\ outcome' = o
    /\ exit_code' = code

\* ev = parse_args(argv); the positional form with fewer than seven
\* arguments raises SystemExit with the usage text (exit status 1)
ParseArgs(inputs) ==
    /\ pc = "parse"
    /\ \/ /\ \E in \in inputs : ev' = parse_args(in[1], in[2])
          /\ pc' = "gate"
          /\ UNCHANGED <<outcome, exit_code>>
       \/ /\ Finish("USAGE", 1)
          /\ ev' = ev
    /\ UNCHANGED <<cfg, token, attempt, last_err, sessions, ctx, cur, item, target,
                   client, seek_attempt, calls, stage>>

\* variant: main without the user exemption
Gate_unexempted ==
    /\ pc = "gate"
    /\ IF ~is_video_transcoding(ev.video_decision)
       THEN /\ pc' = "done"
            /\ outcome' = "NOT_TRANSCODING"
            /\ exit_code' = 0
       ELSE pc' = "connect" /\ UNCHANGED <<outcome, exit_code>>
    /\ UNCHANGED <<cfg, ev, token, attempt, last_err, sessions, ctx, cur, item, target,
                   client, seek_attempt, calls, stage>>

\* the user exemption and the video-decision test, e being the event
GateOn(e) ==
    /\ pc = "gate"
    /\ IF Truthy(e.username) /\ e.username \in EXEMPT_USERS
       THEN Finish("EXEMPT", 0)
       ELSE IF ~is_video_transcoding(e.video_decision)
       THEN Finish("NOT_TRANSCODING", 0)
       ELSE pc' = "connect" /\ UNCHANGED <<outcome, exit_code>>
    /\ UNCHANGED <<cfg, ev, token, attempt, last_err, sessions, ctx, cur, item, target,
                   client, seek_attempt, calls, stage>>

\* connect_plex: raises before any request when PLEX_URL or the token is
\* not set ("unconfigured"); otherwise records the token and builds the
\* PlexServer, which connects ("ok") or raises
ConnectPlex ==
    /\ pc = "connect"
    /\ \E r \in {"unconfigured", "ok", "raise"} :
        IF r = "unconfigured"
        THEN /\ stage' = "connect"
             /\ pc' = "failed"
             /\ UNCHANGED <<token, calls, attempt>>
        ELSE /\ token' = "token"
             /\ calls' = Append(calls, Call("PlexServer", "", r))
             /\ IF r = "ok"
                THEN pc' = "find_session" /\ attempt' = 1 /\ stage' = stage
                ELSE pc' = "failed" /\ stage' = "connect" /\ attempt' = attempt
    /\ UNCHANGED <<cfg, ev, last_err, sessions, ctx, cur, item, target, client,
                   seek_attempt, outcome, exit_code>>

Gate == GateOn(ev)

\* ctx = find_session(plex, ev), e being the event
FindSessionOn(e, lists) ==
    /\ pc = "find_session"
    /\ \E res \in {QueryRaised} \cup {QueryReturned(ss) : ss \in lists} :
            find_session_attempt(e, res)
    /\ UNCHANGED <<cfg, ev, token, cur, item, target, client, seek_attempt, stage,
                   outcome, exit_code>>

FindSession(lists) == FindSessionOn(ev, lists)

\* "if ctx is None"
SessionNotFound ==
    /\ pc = "session_not_found"
    /\ stage' = "session"
    /\ pc' = "failed"
    /\ attempt' = 0
    /\ last_err' = FALSE
    /\ sessions' = <<>>
    /\ UNCHANGED <<cfg, ev, token, ctx, cur, item, target, client, seek_attempt, calls,
                   outcome, exit_code>>

\* variant: the check without the test of the class
already_compliant_any_class(c) == c[2] # NoneInt /\ c[2] < MAX_ALLOWED_HEIGHT

\* "if cur_h is not None and cur_h < MAX_ALLOWED_HEIGHT and cur_drc == 'SDR'"
already_compliant(c) ==
    c[2] # NoneInt /\ c[2] < MAX_ALLOWED_HEIGHT /\ classify_dynamic_range(c[3]) = S_sdr

\* variant: the quality test trusts the event's video_resolution and
\* video_dynamic_range where the event states them
ClassifyOn_event_hints(e) ==
    /\ pc = "classify"
    /\ cur' = current_media_identity(ctx.session_item)
    /\ LET h == IF e.video_resolution = "4k" THEN 2160
                ELSE IF e.video_resolution = "1080" THEN 1080
                ELSE cur'[2]
           dr == IF TruthyChars(e.video_dynamic_range) THEN e.video_dynamic_range ELSE cur'[3]
       IN  IF ~is_high_quality(h, dr)
           THEN Finish("NOT_HIGH_QUALITY", 0)
           ELSE IF already_compliant(cur')
           THEN Finish("ALREADY_COMPLIANT", 0)
           ELSE pc' = "select" /\ UNCHANGED <<outcome, exit_code>>
    /\ attempt' = 0
    /\ last_err' = FALSE
    /\ sessions' = <<>>
    /\ UNCHANGED <<cfg, ev, token, ctx, item, target, client, seek_attempt, calls, stage>>

\* the current media identity and the two tests on it; e, the event, is in
\* scope and is not read
ClassifyOn(e) ==
    /\ pc = "classify"
    /\ cur' = current_media_identity(ctx.session_item)
    /\ IF ~is_high_quality(cur'[2], cur'[3])
       THEN Finish("NOT_HIGH_QUALITY", 0)
       ELSE IF already_compliant(cur')
       THEN Finish("ALREADY_COMPLIANT", 0)
       ELSE pc' = "select" /\ UNCHANGED <<outcome, exit_code>>
    /\ attempt' = 0
    /\ last_err' = FALSE
    /\ sessions' = <<>>
    /\ UNCHANGED <<cfg, ev, token, ctx, item, target, client, seek_attempt, calls, stage>>

Classify == ClassifyOn(ev)

SessionItem(s) == [source |-> "session", media |-> s.media]

\* the first selection, over the session item; it is outside every try
SelectFallbackOn(e) ==
    /\ pc = "select"
    /\ item' = SessionItem(ctx.session_item)
    /\ target' = pick_best_fallback_media_index(item', cur[1], cur[2], cur[3])
    /\ IF target'.kind = "raise"
       THEN pc' = "raised" /\ stage' = stage
       ELSE IF target'.kind = "none" /\ Truthy(e.rating_key)
       THEN pc' = "fetch" /\ stage' = stage
       ELSE IF target'.kind = "none"
       THEN pc' = "failed" /\ stage' = "no_fallback"
       ELSE pc' = "find_client" /\ stage' = stage
    /\ UNCHANGED <<cfg, ev, token, attempt, last_err, sessions, ctx, cur, client,
                   seek_attempt, calls, outcome, exit_code>>

SelectFallback == SelectFallbackOn(ev)

\* fetch_library_item: fetchItem(int(rating_key)), then fetchItem(path) if
\* that raised; r1 and r2 are what the two requests do
fetch_calls(r1, r2) ==
    IF r1 = "ok" THEN <<Call("fetchItem", "int", r1)>>
    ELSE <<Call("fetchItem", "int", r1), Call("fetchItem", "path", r2)>>

\* variant: the index comes from the library item and the item stays the
\* session item
FetchLibrary_keeps_session_item(items) ==
    /\ pc = "fetch"
    /\ \E r1 \in {"ok", "raise"}, r2 \in {"ok", "raise"}, it \in items :
        LET fetched == r1 = "ok" \/ r2 = "ok"
            sel == pick_best_fallback_media_index(it, cur[1], cur[2], cur[3])
        IN  /\ calls' = calls \o fetch_calls(r1, r2)
            /\ item' = item
            /\ target' = IF fetched /\ sel.kind # "raise" THEN sel ELSE target
            /\ IF fetched /\ sel.kind = "index"
               THEN pc' = "find_client" /\ stage' = stage
               ELSE pc' = "failed" /\ stage' = "no_fallback"
    /\ UNCHANGED <<cfg, ev, token, attempt, last_err, sessions, ctx, cur, client,
                   seek_attempt, outcome, exit_code>>

\* the second selection, over the library item, inside one try
FetchLibrary(items) ==
    /\ pc = "fetch"
    /\ \E r1 \in {"ok", "raise"}, r2 \in {"ok", "raise"}, it \in items :
        LET fetched == r1 = "ok" \/ r2 = "ok"
            sel == pick_best_fallback_media_index(it, cur[1], cur[2], cur[3])
        IN  /\ calls' = calls \o fetch_calls(r1, r2)
            /\ item' = IF fetched THEN it ELSE item
            /\ target' = IF fetched /\ sel.kind # "raise" THEN sel ELSE target
            /\ IF fetched /\ sel.kind = "index"
               THEN pc' = "find_client" /\ stage' = stage
               ELSE pc' = "failed" /\ stage' = "no_fallback"
    /\ UNCHANGED <<cfg, ev, token, attempt, last_err, sessions, ctx, cur, client,
                   seek_attempt, outcome, exit_code>>

\* client, identifier_used = find_client(plex, ctx, ev.machine_id)
FindClientOn(e, outs) ==
    /\ pc = "find_client"
    /\ \E o \in outs :
        LET r == find_client(ctx, e.machine_id, o)
        IN  /\ client' = r.client
            /\ calls' = calls \o r.calls
            /\ IF r.client.found
               THEN pc' = "switch" /\ stage' = stage
               ELSE pc' = "failed" /\ stage' = "client"
    /\ UNCHANGED <<cfg, ev, token, attempt, last_err, sessions, ctx, cur, item, target,
                   seek_attempt, outcome, exit_code>>

FindClient(outs) == FindClientOn(ev, outs)

\* variant: the play command names the first rendition
play_command_first_rendition(it, view_offset, idx, r) ==
    Call("playMedia", [item |-> it, offset |-> view_offset, mediaIndex |-> 0], r)

\* client.playMedia(item_for_versions, offset, mediaIndex, partIndex=0)
play_command(it, view_offset, idx, r) ==
    Call("playMedia", [item |-> it, offset |-> view_offset, mediaIndex |-> idx], r)

\* variant: the seek follows every play command
seek_needed_always(view_offset) == TRUE

\* "if view_offset > 0"
seek_needed(view_offset) == view_offset > 0

Switch ==
    /\ pc = "switch"
    /\ \E r \in {"ok", "raise"} :
        /\ IF r = "raise"
           THEN /\ calls' = Append(calls, play_command(item, ctx.view_offset_ms, target.idx, r))
                /\ pc' = "failed" /\ stage' = "switch"
                /\ UNCHANGED <<seek_attempt, outcome, exit_code>>
           ELSE IF seek_needed(ctx.view_offset_ms)
           THEN /\ calls' = calls \o <<play_command(item, ctx.view_offset_ms, target.idx, r),
                                      Call("sleep", "SEEK_DELAY_S", "ok")>>
                /\ pc' = "seek" /\ seek_attempt' = 1
                /\ UNCHANGED <<stage, outcome, exit_code>>
           ELSE /\ calls' = Append(calls, play_command(item, ctx.view_offset_ms, target.idx, r))
                /\ Finish("SWITCHED", 0)
                /\ UNCHANGED <<stage, seek_attempt>>
    /\ UNCHANGED <<cfg, ev, token, attempt, last_err, sessions, ctx, cur, item, target, client>>

\* variant: one seek more than SEEK_RETRIES
more_seeks_one_more(n) == n <= SEEK_RETRIES

\* "for attempt in range(1, SEEK_RETRIES + 1)"
more_seeks(n) == n < SEEK_RETRIES

\* variant: when every seek has failed the switch counts as failed
Seek_exhausted_fails ==
    /\ pc = "seek"
    /\ \E r \in {"ok", "raise"} :
        IF r = "ok"
        THEN /\ calls' = Append(calls, Call("seekTo", ctx.view_offset_ms, r))
             /\ Finish("SWITCHED", 0)
             /\ UNCHANGED <<seek_attempt, stage>>
        ELSE /\ calls' = calls \o <<Call("seekTo", ctx.view_offset_ms, r),
                                   Call("sleep", "SEEK_RETRY_DELAY_S", "ok")>>
             /\ IF more_seeks(seek_attempt)
                THEN /\ pc' = pc /\ seek_attempt' = seek_attempt + 1
                     /\ UNCHANGED <<outcome, exit_code, stage>>
                ELSE /\ pc' = "failed" /\ stage' = "switch"
                     /\ UNCHANGED <<outcome, exit_code, seek_attempt>>
    /\ UNCHANGED <<cfg, ev, token, attempt, last_err, sessions, ctx, cur, item, target,
                   client>>

Seek ==
    /\ pc = "seek"
    /\ \E r \in {"ok", "raise"} :
        IF r = "ok"
        THEN /\ calls' = Append(calls, Call("seekTo", ctx.view_offset_ms, r))
             /\ Finish("SWITCHED", 0)
             /\ seek_attempt' = seek_attempt
        ELSE /\ calls' = calls \o <<Call("seekTo", ctx.view_offset_ms, r),
                                   Call("sleep", "SEEK_RETRY_DELAY_S", "ok")>>
             /\ IF more_seeks(seek_attempt)
                THEN pc' = pc /\ seek_attempt' = seek_attempt + 1
                                /\ UNCHANGED <<outcome, exit_code>>
                ELSE Finish("SWITCHED", 0) /\ seek_attempt' = seek_attempt
    /\ UNCHANGED <<cfg, ev, token, attempt, last_err, sessions, ctx, cur, item, target,
                   client, stage>>

\* variant: the client stage and the switch stage read each other's toggle
kill_toggle_swapped(st) ==
    IF st = "connect" THEN cfg.KILL_ON_PLEX_CONNECT_FAIL
    ELSE IF st = "session" THEN cfg.KILL_ON_SESSION_NOT_FOUND
    ELSE IF st = "no_fallback" THEN cfg.KILL_ON_NO_FALLBACK_MEDIA
    ELSE IF st = "client" THEN cfg.KILL_ON_SWITCH_FAIL
    ELSE cfg.KILL_ON_CLIENT_NOT_FOUND

\* the toggle main reads at each failure stage
kill_toggle(st) ==
    IF st = "connect" THEN cfg.KILL_ON_PLEX_CONNECT_FAIL
    ELSE IF st = "session" THEN cfg.KILL_ON_SESSION_NOT_FOUND
    ELSE IF st = "no_fallback" THEN cfg.KILL_ON_NO_FALLBACK_MEDIA
    ELSE IF st = "client" THEN cfg.KILL_ON_CLIENT_NOT_FOUND
    ELSE cfg.KILL_ON_SWITCH_FAIL

\* the message main passes at each failure stage
kill_message(st) ==
    IF st = "connect" THEN "KILL_MESSAGE_PLEX_CONNECT_FAIL"
    ELSE IF st = "session" THEN "KILL_MESSAGE_SESSION_NOT_FOUND"
    ELSE IF st = "no_fallback" THEN "KILL_MESSAGE_NO_FALLBACK_MEDIA"
    ELSE IF st = "client" THEN "KILL_MESSAGE_CLIENT_NOT_FOUND"
    ELSE "KILL_MESSAGE_SWITCH_FAIL"

\* the ctx main passes to terminate_best_effort: None before resolution
escalation_ctx(st) == IF st \in {"connect", "session"} THEN NoCtx ELSE ctx

\* "if KILL_ON_...: terminate_best_effort(...)" and "return 0"
EscalateOn(e) ==
    /\ pc = "failed"
    /\ IF kill_toggle(stage)
       THEN \E tau \in {"unconfigured", "success", "error", "none"},
               stop \in {"ok", "raise"}, raw \in {"ok", "fail"} :
            /\ calls' = calls \o terminate_best_effort(e, escalation_ctx(stage),
                                     kill_message(stage), tau, stop, raw).calls
            /\ Finish("TERMINATED", 0)
       ELSE /\ calls' = calls
            /\ Finish("FAILURE_IGNORED", 0)
    /\ UNCHANGED <<cfg, ev, token, attempt, last_err, sessions, ctx, cur, item, target,
                   client, seek_attempt, stage>>

Escalate == EscalateOn(ev)

\* the guard around main: log the error, sys.exit(1)
UnhandledException ==
    /\ pc = "raised"
    /\ Finish("UNEXPECTED", 1)
    /\ UNCHANGED <<cfg, ev, token, attempt, last_err, sessions, ctx, cur, item, target,
                   client, seek_attempt, calls, stage>>

----------------------------------------------------------------------------
(* The inputs of the model *)

\* sequences over S of length at most n
RECURSIVE SeqsUpTo(_, _)
SeqsUpTo(S, n) ==
    IF n = 0 THEN {<<>>}
    ELSE LET shorter == SeqsUpTo(S, n - 1)
         IN  shorter \cup {Append(q, x) : q \in {r \in shorter : Len(r) = n - 1}, x \in S}

Med(id, h, dr, sel) ==
    [id |-> id, height |-> h, videoResolution |-> NoneChars, stream_height |-> NoneInt,
     videoDynamicRange |-> dr, stream_hint |-> "none", selected |-> sel, broken |-> FALSE]

BrokenMed == [Med("109", NoneInt, NoneChars, FALSE) EXCEPT !.broken = TRUE]

\* a rendition that states its height only as a resolution string
Med4k(id, dr, sel) == [Med(id, NoneInt, dr, sel) EXCEPT !.videoResolution = S_4k]

\* a rendition whose dynamic range shows only in its video stream
MedDovi(id, h, sel) == [Med(id, h, NoneChars, sel) EXCEPT !.stream_hint = "dovi"]

Sess(rk, sk, sid, user, mid, title, addr, port, off, media, has_stop) ==
    [ratingKey |-> rk, sessionKey |-> sk, sessionId |-> sid, username |-> user,
     machineIdentifier |-> mid, title |-> title, address |-> addr, port |-> port,
     viewOffset |-> off, media |-> media, has_stop |-> has_stop, broken |-> FALSE]

BrokenSess(s) == [s EXCEPT !.broken = TRUE]

Media_4kHdr_1080_720 ==
    <<Med("101", 2160, S_hdr, TRUE), Med("102", 1080, S_sdr, FALSE), Med("103", 720, S_sdr, FALSE)>>

Media_4kSdr_only == <<Med4k("101", <<"s","d","r">>, TRUE)>>

Media_1080Sdr_current == <<Med("101", 2160, S_hdr, FALSE), Med("102", 1080, S_sdr, TRUE)>>

Media_1080Dovi_1080Sdr == <<MedDovi("104", 1080, TRUE), Med("102", 1080, S_sdr, FALSE)>>

Media_4k_broken == <<Med("101", 2160, S_hdr, TRUE), BrokenMed>>

\* 4K HDR with two lower renditions, resumable, every identifier present
P_tv == Sess("r1", "k1", "s1", "alice", "m1", "TV", "10.0.0.5", "32500", 5000,
             Media_4kHdr_1080_720, TRUE)

\* 4K SDR alone in the session item, at offset 0
P_tv_4k_only == Sess("r1", "k1", "s1", "alice", "m1", "TV", "10.0.0.5", "32500", 0,
                     Media_4kSdr_only, TRUE)

\* a session that exposes only its rating key and user, without stop()
P_bare == Sess("r1", None, None, "alice", None, None, None, None, 5000,
               Media_1080Dovi_1080Sdr, FALSE)

\* already on 1080 SDR
P_low == Sess("r1", "k1", "s1", "alice", "m1", "TV", None, None, NoneInt,
              Media_1080Sdr_current, TRUE)

\* one rendition of the session item raises when read
P_broken_media == Sess("r1", "k1", "s1", "alice", "m1", "TV", None, None, 5000,
                       Media_4k_broken, TRUE)

\* 4K SDR with 720 SDR listed before 1080 SDR, at another offset
P_tv_sdr == Sess("r1", "k1", "s1", "alice", "m1", "TV", "10.0.0.5", "32500", 7000,
                 <<Med("101", 2160, S_sdr, TRUE), Med("103", 720, S_sdr, FALSE),
                   Med("102", 1080, S_sdr, FALSE)>>, TRUE)

\* somebody else's session
P_other == Sess("r2", "k2", "s2", "carol", "m2", "Phone", None, None, 0,
                Media_4kHdr_1080_720, TRUE)

\* the lists the pipeline's queries return
PipelineLists ==
    { <<>>, <<P_tv>>, <<P_tv_4k_only>>, <<P_bare>>, <<P_low>>, <<P_broken_media>>,
      <<P_tv_sdr>>, <<P_other>>, <<P_other, P_tv>>, <<P_bare, P_tv>>, <<BrokenSess(P_other), P_tv>> }

LibItem(media) == [source |-> "library", media |-> media]

\* the items the catalog returns
LibraryItems ==
    { LibItem(<<Med("101", 2160, S_sdr, FALSE), Med("102", 1080, S_sdr, FALSE),
                Med("103", 720, S_sdr, FALSE)>>),
      LibItem(<<Med("101", 2160, S_sdr, FALSE), Med("105", 1080, S_hdr, FALSE)>>),
      LibItem(<<Med("101", 2160, S_sdr, FALSE)>>),
      LibItem(<<Med("102", 1080, S_sdr, FALSE), BrokenMed>>) }

RawEvent(rk, mid, user, sid, sk, dec) ==
    [parsed |-> FALSE, rating_key |-> rk, machine_id |-> mid, username |-> user,
     session_id |-> sid, session_key |-> sk, user_id |-> "7", video_decision |-> dec,
     video_resolution |-> "4k", stream_video_resolution |-> "1080",
     video_dynamic_range |-> S_hdr, action |-> None]

D_transcode == S_transcode

D_direct_play == <<"d","i","r","e","c","t"," ","p","l","a","y">>

\* decisions that indicate direct playback, in several casings and spacings
DirectDecisions ==
    { D_direct_play,
      <<" ","D","i","r","e","c","t"," ","P","l","a","y"," ">>,
      <<"D","I","R","E","C","T"," ","S","T","R","E","A","M">>,
      <<"d","i","r","e","c","t","p","l","a","y">>,
      <<" ","C","o","p","y">> }

\* decisions that name neither direct playback nor a transcode, or nothing
OtherDecisions == { <<"b","u","r","n">>, <<" "," ">>, <<>>, NoneChars }

\* the command lines of the pipeline, as (mode, values): transcodes with the
\* identifiers present or missing, and every other decision for an ordinary
\* and an exempt user
PipelineInputs ==
    { <<"flags", RawEvent("r1", "m1", "alice", "s1", "k1", D_transcode)>>,
      <<"flags", RawEvent("r1", "m1", "bob", "s1", "k1", D_transcode)>>,
      <<"flags", RawEvent("", "m1", "alice", "s1", "k1",
                          <<" ","T","r","a","n","s","c","o","d","e"," ">>)>>,
      <<"flags", RawEvent("", "", "", "", "", D_transcode)>>,
      <<"positional", RawEvent("r1", "m1", "alice", "", "", D_transcode)>> }
    \cup { <<mode, RawEvent("r1", "m1", user, "s1", "k1", dec)>> :
             mode \in {"flags", "positional"}, user \in {"alice", "bob"},
             dec \in DirectDecisions \cup OtherDecisions }

ClientOutcome(raised, list, nm, px, dx) ==
    [clients |-> [raised |-> raised, list |-> list], name |-> nm,
     proxy |-> <<px, px>>, direct |-> <<dx, dx>>]

\* what the collaborators of find_client do in the pipeline
ClientOutcomes ==
    { ClientOutcome(FALSE, <<"m2", "m1">>, "raise", "raise", "raise"),
      ClientOutcome(TRUE, <<>>, "ok", "raise", "raise"),
      ClientOutcome(FALSE, <<>>, "raise", "ok", "raise"),
      ClientOutcome(FALSE, <<>>, "none", "raise", "ok"),
      ClientOutcome(TRUE, <<>>, "raise", "raise", "raise") }

KillToggles ==
    [KILL_ON_PLEX_CONNECT_FAIL : BOOLEAN, KILL_ON_SESSION_NOT_FOUND : BOOLEAN,
     KILL_ON_CLIENT_NOT_FOUND : BOOLEAN, KILL_ON_NO_FALLBACK_MEDIA : BOOLEAN,
     KILL_ON_SWITCH_FAIL : BOOLEAN, KILL_ON_UNEXPECTED_ERROR : BOOLEAN]

Config(k, sdr_only, allow_hdr) ==
    [KILL_ON_PLEX_CONNECT_FAIL |-> k.KILL_ON_PLEX_CONNECT_FAIL,
     KILL_ON_SESSION_NOT_FOUND |-> k.KILL_ON_SESSION_NOT_FOUND,
     KILL_ON_CLIENT_NOT_FOUND |-> k.KILL_ON_CLIENT_NOT_FOUND,
     KILL_ON_NO_FALLBACK_MEDIA |-> k.KILL_ON_NO_FALLBACK_MEDIA,
     KILL_ON_SWITCH_FAIL |-> k.KILL_ON_SWITCH_FAIL,
     KILL_ON_UNEXPECTED_ERROR |-> k.KILL_ON_UNEXPECTED_ERROR,
     FALLBACK_SDR_ONLY |-> sdr_only, ALLOW_HDR_FALLBACK |-> allow_hdr]

\* every toggle enabled (the defaults), every toggle disabled
UniformKill(b) ==
    [KILL_ON_PLEX_CONNECT_FAIL |-> b, KILL_ON_SESSION_NOT_FOUND |-> b,
     KILL_ON_CLIENT_NOT_FOUND |-> b, KILL_ON_NO_FALLBACK_MEDIA |-> b,
     KILL_ON_SWITCH_FAIL |-> b, KILL_ON_UNEXPECTED_ERROR |-> b]

\* the configurations of the pipeline: the three selection modes, with the
\* toggles all enabled or all disabled
PipelineConfigs ==
    { Config(UniformKill(b), m[1], m[2]) :
        b \in BOOLEAN, m \in {<<TRUE, FALSE>>, <<FALSE, TRUE>>, <<FALSE, FALSE>>} }

----------------------------------------------------------------------------
(* The invocation *)

InitWith(configs) ==
    /\ cfg \in configs
    /\ pc = "parse"
    /\ ev = NoEvent
    /\ token = None
    /\ attempt = 0
    /\ last_err = FALSE
    /\ sessions = <<>>
    /\ ctx = NoCtx
    /\ cur = NoCurrent
    /\ item = NoItem
    /\ target = NoTarget
    /\ client = NoClient
    /\ seek_attempt = 0
    /\ calls = <<>>
    /\ stage = "none"
    /\ outcome = "NONE"
    /\ exit_code = NoneInt

\* main, with the inputs and the collaborators' answers drawn from the
\* given sets
Pipeline(inputs, lists, items, outs) ==
    \/ ParseArgs(inputs)
    \/ Gate
    \/ ConnectPlex
    \/ FindSession(lists)
    \/ SessionNotFound
    \/ Classify
    \/ SelectFallback
    \/ FetchLibrary(items)
    \/ FindClient(outs)
    \/ Switch
    \/ Seek
    \/ Escalate
    \/ UnhandledException

\* main after parse_args, e being the event
PipelineOn(e, lists, items, outs) ==
    \/ GateOn(e)
    \/ ConnectPlex
    \/ FindSessionOn(e, lists)
    \/ SessionNotFound
    \/ ClassifyOn(e)
    \/ SelectFallbackOn(e)
    \/ FetchLibrary(items)
    \/ FindClientOn(e, outs)
    \/ Switch
    \/ Seek
    \/ EscalateOn(e)
    \/ UnhandledException

Init == InitWith(PipelineConfigs)

Next == Pipeline(PipelineInputs, PipelineLists, LibraryItems, ClientOutcomes)

Spec == Init /\ [][Next]_vars

----------------------------------------------------------------------------
(* The invocation under every combination of the KILL_ON_* toggles *)

ToggleConfigs == { Config(k, TRUE, FALSE) : k \in KillToggles }

ToggleInputs == { <<"flags", RawEvent("r1", "m1", "alice", "s1", "k1", D_transcode)>> }

ToggleLists == { <<>>, <<P_tv>>, <<P_tv_4k_only>>, <<P_broken_media>> }

ToggleItems ==
    { LibItem(<<Med("101", 2160, S_sdr, FALSE), Med("102", 1080, S_sdr, FALSE)>>),
      LibItem(<<Med("101", 2160, S_sdr, FALSE)>>) }

ToggleOutcomes ==
    { ClientOutcome(FALSE, <<"m1">>, "raise", "raise", "raise"),
      ClientOutcome(TRUE, <<>>, "raise", "raise", "raise") }

InitToggles == InitWith(ToggleConfigs)

NextToggles == Pipeline(ToggleInputs, ToggleLists, ToggleItems, ToggleOutcomes)

SpecToggles == InitToggles /\ [][NextToggles]_vars

----------------------------------------------------------------------------
(* find_session alone: the events and the session lists of the resolver *)

MaxSessions == 2

\* the same title on a second device of the same user
P_phone == Sess("r1", "k3", "s3", "alice", "m3", "Phone", None, None, 0,
                Media_4kHdr_1080_720, TRUE)

ResolverSessions == { P_tv, P_phone, P_bare, P_other, BrokenSess(P_other) }

ResolverLists == SeqsUpTo(ResolverSessions, MaxSessions)

\* events that identify the session by each criterion, by several, by none
ResolverEvents ==
    { parse_args("flags", RawEvent("r1", "m1", "alice", "s1", "k1", D_transcode)),
      parse_args("flags", RawEvent("r1", "m3", "alice", "s3", "", D_transcode)),
      parse_args("flags", RawEvent("r1", "", "alice", "", "", D_transcode)),
      parse_args("positional", RawEvent("r1", "m1", "", "", "", D_transcode)),
      parse_args("positional", RawEvent("r1", "m3", "alice", "", "", D_transcode)),
      parse_args("flags", RawEvent("", "", "", "", "", D_transcode)),
      parse_args("positional", RawEvent("", "", "", "", "", D_transcode)) }

\* the state in which main calls find_session
InitResolver ==
    /\ cfg \in { Config(UniformKill(TRUE), TRUE, FALSE) }
    /\ pc = "find_session"
    /\ ev \in ResolverEvents
    /\ token = "token"
    /\ attempt = 1
    /\ last_err = FALSE
    /\ sessions = <<>>
    /\ ctx = NoCtx
    /\ cur = NoCurrent
    /\ item = NoItem
    /\ target = NoTarget
    /\ client = NoClient
    /\ seek_attempt = 0
    /\ calls = <<Call("PlexServer", "", "ok")>>
    /\ stage = "none"
    /\ outcome = "NONE"
    /\ exit_code = NoneInt

NextResolver == FindSession(ResolverLists)

SpecResolver == InitResolver /\ [][NextResolver]_vars

----------------------------------------------------------------------------
(* pick_best_fallback_media_index alone: items, modes and current media *)

MaxMedia == 2

SelectorMedia ==
    { Med("101", 2160, S_hdr, TRUE), Med("102", 1080, S_sdr, FALSE),
      Med("103", 720, S_sdr, TRUE), Med("105", 1080, S_hdr, FALSE),
      Med(None, 1080, S_sdr, FALSE), MedDovi("104", 1080, TRUE),
      Med("106", 800, S_sdr, FALSE), Med4k("107", <<"s","d","r">>, FALSE),
      Med("108", NoneInt, S_sdr, FALSE), Med("109", 720, NoneChars, FALSE),
      Med("110", 540, S_sdr, FALSE), Med("111", MAX_ALLOWED_HEIGHT, S_sdr, FALSE) }

\* items of the documented selections: 1080/HDR, 1080/SDR and 720/SDR under
\* a 2160/HDR original; 1080/SDR beside the 1080/HDR that is playing
ExampleItems ==
    { LibItem(<<Med("101", 2160, S_hdr, TRUE), Med("105", 1080, S_hdr, FALSE),
                Med("102", 1080, S_sdr, FALSE), Med("103", 720, S_sdr, FALSE)>>),
      LibItem(<<Med("105", 1080, S_hdr, TRUE), Med("102", 1080, S_sdr, FALSE)>>) }

\* the renditions of one item have distinct ids and at most one is selected
WellFormedMedia(ml) ==
    \A i, j \in DOMAIN ml : i # j => ml[i].id # ml[j].id /\ ~(ml[i].selected /\ ml[j].selected)

SelectorItems ==
    { LibItem(ml) : ml \in {q \in SeqsUpTo(SelectorMedia, MaxMedia) : WellFormedMedia(q)} }
    \cup ExampleItems

\* the identities of what is playing, as the caller states them
SelectorCurrents ==
    { <<mid, h, dr>> : mid \in {None, "101", "102"},
                       h \in {NoneInt, 2160, 1080},
                       dr \in {S_hdr, S_sdr, S_unknown} }

SelectorConfigs ==
    { Config(UniformKill(TRUE), so, ah) : so \in BOOLEAN, ah \in BOOLEAN }

\* the arguments of the call: any stated identity, or the one that
\* current_media_identity reads from the item
InitSelector ==
    /\ cfg \in SelectorConfigs
    /\ pc = "select_call"
    /\ item \in SelectorItems
    /\ cur \in SelectorCurrents \cup {current_media_identity(item)}
    /\ ev = NoEvent
    /\ token = None
    /\ attempt = 0
    /\ last_err = FALSE
    /\ sessions = <<>>
    /\ ctx = NoCtx
    /\ target = NoTarget
    /\ client = NoClient
    /\ seek_attempt = 0
    /\ calls = <<>>
    /\ stage = "none"
    /\ outcome = "NONE"
    /\ exit_code = NoneInt

\* target_idx = pick_best_fallback_media_index(item, cur_mid, cur_h, cur_dr)
CallSelector ==
    /\ pc = "select_call"
    /\ target' = pick_best_fallback_media_index(item, cur[1], cur[2], cur[3])
    /\ pc' = "select_return"
    /\ UNCHANGED <<cfg, ev, token, attempt, last_err, sessions, ctx, cur, item, client,
                   seek_attempt, calls, stage, outcome, exit_code>>

NextSelector == CallSelector

SpecSelector == InitSelector /\ [][NextSelector]_vars

----------------------------------------------------------------------------
(* Properties of the escalation and of the exit status *)

TerminationOps == {"terminate_session", "stop", "terminate_raw"}

IsTerminationCall(c) == c.op \in TerminationOps

TerminationCalls == SelectSeq(calls, IsTerminationCall)

NoTerminationCall == TerminationCalls = <<>>

\* C1: at each of the five failure stages a termination is attempted exactly
\* when that stage's own KILL_ON_* toggle is enabled, whatever the other
\* toggles are; with the toggle disabled the invocation ends without any
\* termination request and without any further call.
C1_OwnToggleDecides ==
    /\ [](pc = "done" /\ stage # "none" =>
            /\ outcome \in {"TERMINATED", "FAILURE_IGNORED"}
            /\ stage = "connect" => (outcome = "TERMINATED" <=> cfg.KILL_ON_PLEX_CONNECT_FAIL)
            /\ stage = "session" => (outcome = "TERMINATED" <=> cfg.KILL_ON_SESSION_NOT_FOUND)
            /\ stage = "no_fallback" => (outcome = "TERMINATED" <=> cfg.KILL_ON_NO_FALLBACK_MEDIA)
            /\ stage = "client" => (outcome = "TERMINATED" <=> cfg.KILL_ON_CLIENT_NOT_FOUND)
            /\ stage = "switch" => (outcome = "TERMINATED" <=> cfg.KILL_ON_SWITCH_FAIL)
            /\ outcome = "FAILURE_IGNORED" => NoTerminationCall)
    /\ [][pc = "failed" /\ outcome' = "FAILURE_IGNORED" => calls' = calls]_vars

\* the client lookup failed with its toggle disabled and every other enabled
C1_Witness ==
    /\ pc = "done" /\ stage = "client" /\ outcome = "FAILURE_IGNORED"
    /\ ~cfg.KILL_ON_CLIENT_NOT_FOUND
    /\ cfg.KILL_ON_SWITCH_FAIL /\ cfg.KILL_ON_NO_FALLBACK_MEDIA
    /\ cfg.KILL_ON_SESSION_NOT_FOUND /\ cfg.KILL_ON_PLEX_CONNECT_FAIL

\* C2: an error of none of the five kinds ends as UnexpectedError, and a
\* termination is then attempted exactly when KILL_ON_UNEXPECTED_ERROR is
\* enabled.
C2_UnexpectedErrorToggle ==
    pc = "done" /\ outcome = "UNEXPECTED" =>
        (cfg.KILL_ON_UNEXPECTED_ERROR <=> ~NoTerminationCall)

NormalOutcomes ==
    {"EXEMPT", "NOT_TRANSCODING", "NOT_HIGH_QUALITY", "ALREADY_COMPLIANT", "SWITCHED",
     "TERMINATED", "FAILURE_IGNORED"}

\* C3: for an event that parses, each of the seven outcomes ends with exit
\* status 0, whatever failed on the way, and a non-zero status comes only
\* from the guard around main.
C3_ExitStatus ==
    ev.parsed /\ pc = "done" =>
        /\ outcome \in NormalOutcomes \cup {"UNEXPECTED"}
        /\ outcome \in NormalOutcomes => exit_code = 0
        /\ exit_code # 0 => outcome = "UNEXPECTED"

\* the library fetch failed twice and then every termination method failed
C3_Witness ==
    /\ pc = "done" /\ outcome = "TERMINATED" /\ exit_code = 0
    /\ stage = "no_fallback"
    /\ \E i \in DOMAIN calls : calls[i].op = "fetchItem" /\ calls[i].arg = "path"
                                /\ calls[i].res = "raise"
    /\ \E i \in DOMAIN calls : calls[i].op = "terminate_session" /\ calls[i].res = "error"
    /\ \E i \in DOMAIN calls : calls[i].op = "stop" /\ calls[i].res = "raise"
    /\ \E i \in DOMAIN calls : calls[i].op = "terminate_raw" /\ calls[i].res = "fail"

MethodRank(op) ==
    IF op = "terminate_session" THEN 1 ELSE IF op = "stop" THEN 2 ELSE 3

MethodSucceeded(c) ==
    IF c.op = "terminate_session" THEN c.res = "success" ELSE c.res = "ok"

\* C4: the termination methods are called in the order terminate_session,
\* stop, raw terminate; none is called after one that succeeded; a
\* terminate_session answer other than success falls through to stop() when
\* the session handle has it, and a failed stop() to the raw call when a
\* session id is known.
C4_TerminationOrder ==
    LET T == TerminationCalls
    IN  /\ \A i, j \in DOMAIN T :
              i < j => MethodRank(T[i].op) < MethodRank(T[j].op) /\ ~MethodSucceeded(T[i])
        /\ \A i \in DOMAIN T :
              /\ (T[i].op = "terminate_session" /\ T[i].res # "success"
                    /\ ctx.present /\ ctx.session_item.has_stop)
                 => (i < Len(T) /\ T[i + 1].op = "stop")
              /\ (T[i].op = "stop" /\ T[i].res # "ok"
                    /\ (Truthy(ctx.session_id) \/ Truthy(ev.session_id)))
                 => (i < Len(T) /\ T[i + 1].op = "terminate_raw")

\* Tautulli gave no response, stop() raised, the raw call was made
C4_Witness ==
    /\ pc = "done"
    /\ Len(TerminationCalls) = 3
    /\ TerminationCalls[1].op = "terminate_session" /\ TerminationCalls[1].res = "none"
    /\ TerminationCalls[2].op = "stop" /\ TerminationCalls[2].res = "raise"
    /\ TerminationCalls[3].op = "terminate_raw"

----------------------------------------------------------------------------
(* Properties of the two gates *)

S_direct_play == <<"d","i","r","e","c","t"," ","p","l","a","y">>
S_direct_stream == <<"d","i","r","e","c","t"," ","s","t","r","e","a","m">>
S_copy == <<"c","o","p","y">>

\* the decision names direct playback, in any casing, spaces around it
DirectPlayback ==
    /\ ev.parsed
    /\ ev.video_decision # NoneChars
    /\ str_lower(str_strip(ev.video_decision)) \in {S_direct_play, S_direct_stream, S_copy}

ExemptUser == ev.parsed /\ ev.username \in EXEMPT_USERS

NoActionTaken == calls = <<>> /\ target = NoTarget /\ client = NoClient

\* C5 as stated: an event whose decision names direct playback makes no call
\* and ends in NOT_TRANSCODING with exit status 0.
C5_DirectPlaybackNotTranscoding ==
    DirectPlayback =>
        /\ NoActionTaken
        /\ pc = "done" => outcome = "NOT_TRANSCODING" /\ exit_code = 0

\* C5, amended: an event whose decision names direct playback makes no call
\* and ends with exit status 0, in EXEMPT when its user is on the exemption
\* list and in NOT_TRANSCODING otherwise.
C5_DirectPlaybackNoAction ==
    DirectPlayback =>
        /\ NoActionTaken
        /\ pc \in {"gate", "done"}
        /\ pc = "done" =>
              /\ exit_code = 0
              /\ outcome = IF ExemptUser THEN "EXEMPT" ELSE "NOT_TRANSCODING"

\* a direct stream, in capitals, of an exempt user
C5_Witness ==
    /\ DirectPlayback /\ pc = "done"
    /\ ev.video_decision = <<"D","I","R","E","C","T"," ","S","T","R","E","A","M">>
    /\ outcome = "EXEMPT"

\* C6: an event of a user on the exemption list leads to no session lookup,
\* no switch command and no termination request, whatever its video decision,
\* and ends with exit status 0.
C6_ExemptUserNoAction ==
    ExemptUser =>
        /\ NoActionTaken
        /\ pc \in {"gate", "done"}
        /\ pc = "done" => outcome = "EXEMPT" /\ exit_code = 0

\* an exempt user's transcode
C6_Witness ==
    /\ ExemptUser /\ pc = "done" /\ outcome = "EXEMPT"
    /\ ev.video_decision = S_transcode

----------------------------------------------------------------------------
(* Properties of the session resolver *)

Minimum(S) == CHOOSE x \in S : \A y \in S : x <= y

SameId(a, b) == Truthy(a) /\ Truthy(b) /\ a = b

\* the scores of the criteria that session s satisfies for event e
CriteriaMet(e, s) ==
    (IF SameId(e.session_key, s.sessionKey) THEN {0} ELSE {})
    \cup (IF SameId(e.session_id, s.sessionId) THEN {1} ELSE {})
    \cup (IF SameId(e.rating_key, s.ratingKey) /\ SameId(e.username, s.username)
          THEN {5} ELSE {})
    \cup (IF SameId(e.rating_key, s.ratingKey) /\ SameId(e.machine_id, s.machineIdentifier)
          THEN {10} ELSE {})

\* C7: the session returned from a list satisfies a criterion, no session of
\* the list has a lower minimum over the criteria it satisfies, and no
\* session with the same minimum stands before it.
C7_LowestScoreFirstWins ==
    pc = "classify" =>
        \E k \in DOMAIN sessions :
            /\ ctx.session_item = sessions[k]
            /\ CriteriaMet(ev, sessions[k]) # {}
            /\ \A j \in DOMAIN sessions :
                  CriteriaMet(ev, sessions[j]) # {} =>
                     /\ Minimum(CriteriaMet(ev, sessions[j])) >= Minimum(CriteriaMet(ev, sessions[k]))
                     /\ Minimum(CriteriaMet(ev, sessions[j])) = Minimum(CriteriaMet(ev, sessions[k]))
                        => k <= j

\* the session-key match stands after a match by rating key and username
C7_Witness ==
    /\ pc = "classify"
    /\ sessions = <<P_bare, P_tv>>
    /\ ev.session_key = "k1"
    /\ ctx.session_item = P_tv

\* a session of the latest list that satisfies a criterion and can be read
ReadableMatch ==
    \E k \in DOMAIN sessions : ~sessions[k].broken /\ CriteriaMet(ev, sessions[k]) # {}

\* C8: an attempt whose list holds a readable matching session returns it,
\* also when another candidate of the list cannot be read.
C8_FailingCandidateSkipped ==
    (pc = "session_not_found" \/ (pc = "find_session" /\ attempt > 1)) => ~ReadableMatch

CountCalls(op) == Cardinality({i \in DOMAIN calls : calls[i].op = op})

LastCall == calls[Len(calls)]

\* the latest query returned a list in which every candidate can be read and
\* one matches
CleanMatch == ReadableMatch /\ \A k \in DOMAIN sessions : ~sessions[k].broken

----------------------------------------------------------------------------
(* Properties of the fallback selector *)

Returned == item.media[target.idx + 1]

\* C10: the rendition at the returned index does not have the current media
\* id, and when the current identity is the one read from the item itself it
\* is not the rendition that identity was read from.
C10_NeverCurrent ==
    pc = "select_return" /\ target.kind = "index" =>
        /\ Truthy(cur[1]) => Returned.id # cur[1]
        /\ cur = current_media_identity(item) => target.idx + 1 # current_media_position(item)

\* the current rendition is in the item, under the threshold and ranked
\* before the one returned
C10_Witness ==
    /\ pc = "select_return" /\ target.kind = "index"
    /\ Truthy(cur[1])
    /\ \E i \in DOMAIN item.media :
          /\ item.media[i].id = cur[1]
          /\ media_height(item.media[i]) < MAX_ALLOWED_HEIGHT
          /\ media_height(item.media[i]) < cur[2]
          /\ classify_dynamic_range(media_dynamic_range(item.media[i])) = S_sdr
          /\ ScoreLess(candidate_score(media_height(item.media[i])),
                       candidate_score(media_height(Returned)))

\* the dynamic-range class of a rendition
ClassOf(m) == classify_dynamic_range(media_dynamic_range(m))

KnownBelowThreshold(m) ==
    media_height(m) # NoneInt /\ media_height(m) < MAX_ALLOWED_HEIGHT

C12_ReturnedBelowThreshold ==
    pc = "select_return" /\ target.kind = "index" => KnownBelowThreshold(Returned)

\* a rendition is returned from an item that also holds one at the
\* threshold, the current height being unknown
C12_Witness ==
    /\ pc = "select_return" /\ target.kind = "index"
    /\ cur[2] = NoneInt
    /\ \E i \in DOMAIN item.media : media_height(item.media[i]) = MAX_ALLOWED_HEIGHT
    /\ ~cfg.FALLBACK_SDR_ONLY

\* rendition m is lower than the current one, or as high while the class
\* goes from one that is not SDR to SDR
ImprovesOnCurrent(m) ==
    /\ cur[2] # NoneInt
    /\ \/ media_height(m) < cur[2]
       \/ /\ media_height(m) = cur[2]
          /\ classify_dynamic_range(cur[3]) # S_sdr
          /\ ClassOf(m) = S_sdr

\* C13 as stated: every returned rendition is lower than the current one, or
\* as high with the class going from non-SDR to SDR.
C13_ReturnedImproves ==
    pc = "select_return" /\ target.kind = "index" => ImprovesOnCurrent(Returned)

\* C13, amended: the same when the current height is known; when it is
\* unknown the returned rendition is only known to be below the threshold.
C13_ReturnedImprovesOnKnownHeight ==
    pc = "select_return" /\ target.kind = "index" =>
        /\ cur[2] # NoneInt => ImprovesOnCurrent(Returned)
        /\ cur[2] = NoneInt => KnownBelowThreshold(Returned)

\* SDR-only, 1080/HDR playing, 1080/SDR the only other rendition: returned
C13_Witness ==
    /\ pc = "select_return" /\ cfg.FALLBACK_SDR_ONLY
    /\ cur = <<"105", 1080, S_hdr>>
    /\ item.media = <<Med("105", 1080, S_hdr, TRUE), Med("102", 1080, S_sdr, FALSE)>>
    /\ target.kind = "index" /\ target.idx = 1

\* rendition m passes the filters that do not depend on the pass
Eligible(m) ==
    /\ Truthy(cur[1]) => AttrStr(m.id) # cur[1]
    /\ KnownBelowThreshold(m)
    /\ cur[2] # NoneInt => ImprovesOnCurrent(m)

EligibleSdr == {i \in DOMAIN item.media : Eligible(item.media[i]) /\ ClassOf(item.media[i]) = S_sdr}

EligibleAny == {i \in DOMAIN item.media : Eligible(item.media[i])}

SdrPreferred == ~cfg.FALLBACK_SDR_ONLY /\ cfg.ALLOW_HDR_FALLBACK

\* C14: in SDR-preferred mode a rendition that is not SDR is returned only
\* when no SDR rendition is eligible, and an eligible SDR rendition is
\* returned whenever there is one.
C14_SdrPassFirst ==
    pc = "select_return" /\ SdrPreferred =>
        /\ target.kind = "index" /\ ClassOf(Returned) # S_sdr => EligibleSdr = {}
        /\ EligibleSdr # {} => target.kind = "index" /\ target.idx + 1 \in EligibleSdr
        /\ EligibleSdr = {} /\ EligibleAny # {} => target.kind = "index"

\* 2160/HDR playing, 1080/HDR before 1080/SDR and 720/SDR: 1080/SDR returned
C14_Witness ==
    /\ pc = "select_return" /\ SdrPreferred
    /\ cur = <<"101", 2160, S_hdr>>
    /\ item.media = <<Med("101", 2160, S_hdr, TRUE), Med("105", 1080, S_hdr, FALSE),
                      Med("102", 1080, S_sdr, FALSE), Med("103", 720, S_sdr, FALSE)>>
    /\ target.kind = "index" /\ target.idx = 2

EligibleHdr ==
    {i \in DOMAIN item.media :
        Eligible(item.media[i]) /\ ClassOf(item.media[i]) \in {S_hdr, S_dolby_vision}}

\* C15: with ALLOW_HDR_FALLBACK set and no SDR rendition eligible, an
\* eligible HDR or DOLBY VISION rendition is returned, whatever
\* FALLBACK_SDR_ONLY is; and an HDR or DOLBY VISION rendition is returned
\* only with ALLOW_HDR_FALLBACK set.
C15_AllowHdrDecides ==
    pc = "select_return" =>
        /\ cfg.ALLOW_HDR_FALLBACK /\ EligibleSdr = {} /\ EligibleHdr # {}
              => target.kind = "index" /\ target.idx + 1 \in EligibleHdr
        /\ target.kind = "index" /\ ClassOf(Returned) \in {S_hdr, S_dolby_vision}
              => cfg.ALLOW_HDR_FALLBACK

Listed(h) == \E i \in DOMAIN PREFER_HEIGHTS : PREFER_HEIGHTS[i] = h

\* height a ranks strictly before height b
RanksBefore(a, b) ==
    \/ Listed(a) /\ Listed(b) /\ IndexOf(a, PREFER_HEIGHTS) < IndexOf(b, PREFER_HEIGHTS)
    \/ Listed(a) /\ ~Listed(b)
    \/ ~Listed(a) /\ ~Listed(b) /\ a > b

\* the candidates of the pass that yields the result
YieldingCandidates ==
    IF cfg.FALLBACK_SDR_ONLY \/ (cfg.ALLOW_HDR_FALLBACK /\ EligibleSdr # {})
    THEN EligibleSdr ELSE EligibleAny

\* C16: the returned rendition is a candidate of the yielding pass and no
\* candidate of that pass ranks before it: a preferred height by its place
\* in PREFER_HEIGHTS, any preferred height before any other, the others by
\* descending height.
C16_BestRankedReturned ==
    pc = "select_return" /\ target.kind = "index" =>
        /\ target.idx + 1 \in YieldingCandidates
        /\ \A j \in YieldingCandidates :
              ~RanksBefore(media_height(item.media[j]), media_height(Returned))

\* 800 returned before 540, neither preferred
C16_Witness ==
    /\ pc = "select_return" /\ target.kind = "index"
    /\ media_height(Returned) = 800
    /\ \E j \in YieldingCandidates : media_height(item.media[j]) = 540

----------------------------------------------------------------------------
(* The quality test of main on a resolved session with one rendition *)

QualityHeights == {NoneInt, 0, 480, 1080, MAX_ALLOWED_HEIGHT - 1, MAX_ALLOWED_HEIGHT, 2160}

QualityRanges ==
    { NoneChars, <<>>, <<"s","d","r">>, S_sdr, <<" ","S","d","r"," ">>,
      <<"h","d","r","1","0">>, S_hlg, <<"P","Q">>, <<"D","o","V","i">>,
      <<"D","o","l","b","y"," ","V","i","s","i","o","n">>, <<"d","v">>,
      <<"u","n","k","n","o","w","n">>, <<"N","o","n","e">> }

QualitySessions ==
    { Sess("r1", "k1", "s1", "alice", "m1", "TV", None, None, 0,
           <<Med("101", h, dr, TRUE)>>, TRUE) : h \in QualityHeights, dr \in QualityRanges }

InitQuality ==
    /\ cfg = Config(UniformKill(TRUE), TRUE, FALSE)
    /\ pc = "classify"
    /\ ctx \in {session_context(s) : s \in QualitySessions}
    /\ ev = NoEvent
    /\ token = None
    /\ attempt = 0
    /\ last_err = FALSE
    /\ sessions = <<>>
    /\ cur = NoCurrent
    /\ item = NoItem
    /\ target = NoTarget
    /\ client = NoClient
    /\ seek_attempt = 0
    /\ calls = <<>>
    /\ stage = "none"
    /\ outcome = "NONE"
    /\ exit_code = NoneInt

NextQuality == Classify

SpecQuality == InitQuality /\ [][NextQuality]_vars

\* the test as stated, on a height and a class
HighQualityAsStated(h, class) ==
    (h # NoneInt /\ h >= MAX_ALLOWED_HEIGHT) \/ class \notin {S_sdr, S_unknown}

\* main found the current rendition high quality
FoundHighQuality == outcome # "NOT_HIGH_QUALITY"

\* C17: the current rendition is found high quality exactly when its height
\* is known and at least MAX_ALLOWED_HEIGHT or its class is neither SDR nor
\* UNKNOWN: for SDR exactly at or above the threshold, for HDR and DOLBY
\* VISION at every height and with none, never for SDR or UNKNOWN with an
\* unknown height.
C17_HighQualityTest ==
    pc # "classify" =>
        LET h == cur[2]
            class == classify_dynamic_range(cur[3])
        IN  /\ FoundHighQuality <=> HighQualityAsStated(h, class)
            /\ class = S_sdr => (FoundHighQuality <=> (h # NoneInt /\ h >= MAX_ALLOWED_HEIGHT))
            /\ class \in {S_hdr, S_dolby_vision} => FoundHighQuality
            /\ h = NoneInt /\ class \in {S_sdr, S_unknown} => ~FoundHighQuality

\* an SDR rendition exactly at the threshold is found high quality
C17_Witness ==
    /\ pc = "select"
    /\ cur[2] = MAX_ALLOWED_HEIGHT
    /\ classify_dynamic_range(cur[3]) = S_sdr

----------------------------------------------------------------------------
(* The client locator on every resolved player and every behaviour of its *)
(* collaborators                                                          *)

\* the players of the resolved session: with and without an identifier, a
\* title, an address and a port
LocatorSessions ==
    { Sess("r1", "k1", "s1", "alice", mid, title, ap[1], ap[2], 0,
           <<Med("101", 2160, S_hdr, TRUE), Med("102", 1080, S_sdr, FALSE)>>, TRUE) :
        mid \in {None, "m1"}, title \in {None, "TV"},
        ap \in {<<None, None>>, <<"10.0.0.5", None>>, <<"10.0.0.5", "32500">>} }

\* the event's machine identifier: missing, the session's, another
LocatorEvents ==
    { parse_args("flags", RawEvent("r1", mid, "alice", "s1", "k1", D_transcode)) :
        mid \in {"", "m1", "m2"} }

LocatorOutcomes ==
    { [clients |-> cl, name |-> nm, proxy |-> px, direct |-> dx] :
        cl \in { [raised |-> TRUE, list |-> <<>>], [raised |-> FALSE, list |-> <<>>],
                 [raised |-> FALSE, list |-> <<"m3", "m2">>],
                 [raised |-> FALSE, list |-> <<"m2", "m1">>] },
        nm \in {"ok", "none", "raise"},
        px \in {<<"ok", "ok">>, <<"raise", "ok">>, <<"raise", "raise">>},
        dx \in {<<"ok", "ok">>, <<"raise", "ok">>, <<"raise", "raise">>} }

InitClient ==
    /\ cfg = Config(UniformKill(TRUE), TRUE, FALSE)
    /\ pc = "find_client"
    /\ ctx \in {session_context(s) : s \in LocatorSessions}
    /\ ev \in LocatorEvents
    /\ token = None
    /\ attempt = 0
    /\ last_err = FALSE
    /\ sessions = <<>>
    /\ cur = <<"101", 2160, S_hdr>>
    /\ item = SessionItem(ctx.session_item)
    /\ target = [kind |-> "index", idx |-> 1]
    /\ client = NoClient
    /\ seek_attempt = 0
    /\ calls = <<>>
    /\ stage = "none"
    /\ outcome = "NONE"
    /\ exit_code = NoneInt

NextClient == FindClient(LocatorOutcomes)

SpecClient == InitClient /\ [][NextClient]_vars

StrategyRank(op) ==
    IF op = "clients" THEN 1
    ELSE IF op = "client" THEN 2
    ELSE IF op = "PlexClient_proxy" THEN 3
    ELSE 4

StrategyVia(op) ==
    IF op = "clients" THEN "clients"
    ELSE IF op = "client" THEN "name"
    ELSE IF op = "PlexClient_proxy" THEN "proxy"
    ELSE "direct"

LocatorIds == target_ids(ctx, ev.machine_id)

\* the strategy behind call k succeeded with it
StrategySucceeded(k) ==
    IF k.op = "clients"
    THEN \E i \in DOMAIN LocatorIds : \E j \in DOMAIN k.res.list : k.res.list[j] = LocatorIds[i]
    ELSE k.res = "ok"

Tried(op, arg) == \E i \in DOMAIN calls : calls[i].op = op /\ calls[i].arg = arg

\* C19: the locator's calls follow the order enumeration, name lookup, proxy
\* handle, direct connection; the first call is the enumeration; nothing is
\* tried after a strategy succeeds and the handle returned is that
\* strategy's; a failure (of the enumeration too) leads to the next strategy
\* and main goes on to the switch or to the escalation; None is returned
\* only when every strategy that applies was tried and none succeeded.
C19_LocatorOrder ==
    pc # "find_client" =>
        /\ pc \in {"switch", "failed"}
        /\ calls # <<>> /\ calls[1].op = "clients"
        /\ \A i, j \in DOMAIN calls :
              i < j => /\ StrategyRank(calls[i].op) <= StrategyRank(calls[j].op)
                       /\ ~StrategySucceeded(calls[i])
        /\ client.found <=> StrategySucceeded(calls[Len(calls)])
        /\ client.found => client.via = StrategyVia(calls[Len(calls)].op)
        /\ client.found <=> pc = "switch"
        /\ ~client.found =>
              /\ Truthy(ctx.player_title) => Tried("client", ctx.player_title)
              /\ \A i \in DOMAIN LocatorIds : Tried("PlexClient_proxy", LocatorIds[i])
              /\ Truthy(ctx.player_address) /\ Truthy(ctx.player_port) =>
                    \A i \in DOMAIN LocatorIds : Tried("PlexClient_direct", LocatorIds[i])
              /\ stage = "client"

\* the enumeration raised, the name lookup and both proxy handles failed, the
\* direct connection gave the handle
C19_Witness ==
    /\ pc = "switch" /\ client.found /\ client.via = "direct"
    /\ calls[1].res.raised
    /\ Len(calls) >= 5

----------------------------------------------------------------------------
(* Properties of the switch *)

PlayEnded(r) == \E i \in DOMAIN calls : calls[i].op = "playMedia" /\ calls[i].res = r

SeeksEnded(r) == {i \in DOMAIN calls : calls[i].op = "seekTo" /\ calls[i].res = r}

\* C20: when the play command fails no seek is issued and the invocation
\* goes to the escalation of the switch stage; when it succeeds the
\* invocation ends as SWITCHED and no termination is requested, whether the
\* seeks succeed or all fail.
C20_PlayFailureFatalSeekFailureNot ==
    /\ PlayEnded("raise") =>
          /\ SeeksEnded("ok") = {} /\ SeeksEnded("raise") = {}
          /\ stage = "switch"
          /\ pc \in {"failed", "done"}
          /\ pc = "done" => /\ outcome \in {"TERMINATED", "FAILURE_IGNORED"}
                            /\ outcome = "TERMINATED" <=> cfg.KILL_ON_SWITCH_FAIL
    /\ PlayEnded("ok") =>
          /\ NoTerminationCall
          /\ stage = "none"
          /\ pc \in {"seek", "done"}
          /\ pc = "done" => outcome = "SWITCHED" /\ exit_code = 0

\* the play command succeeded, every seek failed: SWITCHED
C20_Witness ==
    /\ pc = "done" /\ outcome = "SWITCHED"
    /\ PlayEnded("ok")
    /\ Cardinality(SeeksEnded("raise")) = SEEK_RETRIES

----------------------------------------------------------------------------
(* The invocation on events whose hints vary and disagree with the server *)

HintFields == {"video_resolution", "stream_video_resolution", "video_dynamic_range"}

\* event e with the hints h
WithHints(e, h) ==
    [e EXCEPT !.video_resolution = h[1], !.stream_video_resolution = h[2],
              !.video_dynamic_range = h[3]]

HintsOf(e) == <<e.video_resolution, e.stream_video_resolution, e.video_dynamic_range>>

\* the hints on the command line: those of a 4K HDR transcode, those of a
\* 1080 SDR one, none, and a contradictory set
RawHints ==
    { <<"4k", "1080", S_hdr>>, <<"1080", "1080", S_sdr>>, <<"", "", NoneChars>>,
      <<"4k", "2160", S_sdr>> }

HintBases ==
    { RawEvent("r1", "m1", "alice", "s1", "k1", D_transcode),
      RawEvent("r1", "m1", "bob", "s1", "k1", D_transcode),
      RawEvent("r1", "", "alice", "", "", D_transcode),
      RawEvent("r1", "m1", "alice", "s1", "k1", D_direct_play) }

HintInputs ==
    { <<mode, WithHints(raw, h)>> :
        mode \in {"flags", "positional"}, raw \in HintBases, h \in RawHints }

\* the hints an event can hold after parse_args
ParsedHints == { HintsOf(parse_args(in[1], in[2])) : in \in HintInputs }

HintConfigs == { Config(UniformKill(TRUE), TRUE, FALSE), Config(UniformKill(FALSE), FALSE, TRUE) }

InitHints == InitWith(HintConfigs)

NextHints == Pipeline(HintInputs, PipelineLists, LibraryItems, ClientOutcomes)

SpecHints == InitHints /\ [][NextHints]_vars

\* events a and b agree on every field that is not a hint
SameButHints(a, b) == \A f \in DOMAIN a \ HintFields : a[f] = b[f]

\* parse_args gives events that differ only in their hints for command lines
\* that differ only in their hints
ParseKeepsHintsApart ==
    \A in \in HintInputs : \A h \in RawHints :
        SameButHints(parse_args(in[1], in[2]), parse_args(in[1], WithHints(in[2], h)))

\* C18: what an invocation does does not depend on the event's
\* video_resolution, stream_video_resolution and video_dynamic_range: every
\* step main takes after parse_args, with the answers the server gave, is
\* the step it takes on the event with any other hints, so that the
\* outcome, the exit status and every call (the switch and the termination
\* calls among them) are the same.
C18_HintsNotRead ==
    [][ /\ pc = "parse" => ParseKeepsHintsApart
        /\ pc # "parse" =>
              \A h \in ParsedHints :
                  PipelineOn(WithHints(ev, h), PipelineLists, LibraryItems, ClientOutcomes) ]_vars

\* the event says 1080 SDR, the session plays 2160 HDR: switched
C18_Witness ==
    /\ pc = "done" /\ outcome = "SWITCHED"
    /\ ev.video_resolution = "1080" /\ ev.video_dynamic_range = S_sdr
    /\ cur[2] = 2160 /\ classify_dynamic_range(cur[3]) = S_hdr

----------------------------------------------------------------------------
(* Properties of an invocation as a whole *)

IsPlayCall(c) == c.op = "playMedia"

PlayCalls == SelectSeq(calls, IsPlayCall)

\* C21: the play command is issued at most once, and exactly once when a
\* client was found and main went past the switch; it names the index the
\* selector returned for the item it names and the offset the session had
\* when it was resolved.  For the 2160/SDR session with 720/SDR and 1080/SDR
\* in SDR-only mode the index is that of 1080/SDR.
C21_OnePlayCommand ==
    /\ Len(PlayCalls) <= 1
    /\ client.found /\ pc # "switch" => Len(PlayCalls) = 1
    /\ ~client.found => PlayCalls = <<>>
    /\ Len(PlayCalls) = 1 =>
          /\ target.kind = "index"
          /\ target = pick_best_fallback_media_index(item, cur[1], cur[2], cur[3])
          /\ PlayCalls[1].arg.mediaIndex = target.idx
          /\ PlayCalls[1].arg.item = item
          /\ PlayCalls[1].arg.offset = ctx.view_offset_ms
          /\ ctx.session_item.viewOffset # NoneInt
                => PlayCalls[1].arg.offset = ctx.session_item.viewOffset
          /\ is_video_transcoding(ev.video_decision)
          /\ is_high_quality(cur[2], cur[3])
          /\ ctx.session_item = P_tv_sdr /\ cfg.FALLBACK_SDR_ONLY
                => PlayCalls[1].arg.mediaIndex = 2 /\ PlayCalls[1].arg.offset = 7000

\* the 2160/SDR session in SDR-only mode, switched to 1080/SDR
C21_Witness ==
    /\ pc = "done" /\ outcome = "SWITCHED"
    /\ ctx.session_item = P_tv_sdr /\ cfg.FALLBACK_SDR_ONLY
    /\ Len(PlayCalls) = 1
    /\ media_height(item.media[PlayCalls[1].arg.mediaIndex + 1]) = 1080

----------------------------------------------------------------------------
(* The invocation run again for the same event after a run that switched *)

\* 4K HDR with two lower HDR renditions
P_tv_hdr == Sess("r1", "k1", "s1", "alice", "m1", "TV", "10.0.0.5", "32500", 5000,
                 <<Med("101", 2160, S_hdr, TRUE), Med("105", 1080, S_hdr, FALSE),
                   Med("106", 720, S_hdr, FALSE)>>, TRUE)

RerunLists == PipelineLists \cup { <<P_tv_hdr>> }

RerunInputs == { <<"flags", RawEvent("r1", "m1", "alice", "s1", "k1", D_transcode)>> }

\* the three selection modes, every toggle enabled
RerunConfigs ==
    { Config(UniformKill(TRUE), m[1], m[2]) :
        m \in {<<TRUE, FALSE>>, <<FALSE, TRUE>>, <<FALSE, FALSE>>} }

\* session s once the client plays rendition idx of item it
NowPlaying(s, it, idx) ==
    [s EXCEPT !.media = [i \in DOMAIN it.media |->
                            [it.media[i] EXCEPT !.selected = (i = idx + 1)]]]

IsRerun(c) == c.op = "rerun"

Rerunning == \E i \in DOMAIN calls : IsRerun(calls[i])

\* the session the server reports to the second run
RerunSession == SelectSeq(calls, IsRerun)[1].arg

\* what plex.sessions() returns: the pool in the first run, the session as
\* the first run left it in the second
RerunServer == IF Rerunning THEN { <<RerunSession>>, <<P_other, RerunSession>> } ELSE RerunLists

\* the handler is started again for the same event: a new process, the
\* session now playing the rendition the first run switched to
Rerun ==
    /\ pc = "done" /\ outcome = "SWITCHED" /\ ~Rerunning
    /\ calls' = Append(calls, Call("rerun", NowPlaying(ctx.session_item, item, target.idx), "ok"))
    /\ pc' = "gate"
    /\ token' = None
    /\ attempt' = 0
    /\ last_err' = FALSE
    /\ sessions' = <<>>
    /\ ctx' = NoCtx
    /\ cur' = NoCurrent
    /\ item' = NoItem
    /\ target' = NoTarget
    /\ client' = NoClient
    /\ seek_attempt' = 0
    /\ stage' = "none"
    /\ outcome' = "NONE"
    /\ exit_code' = NoneInt
    /\ UNCHANGED <<cfg, ev>>

InitRerun == InitWith(RerunConfigs)

NextRerun ==
    \/ Pipeline(RerunInputs, RerunServer, LibraryItems, ClientOutcomes)
    \/ Rerun

SpecRerun == InitRerun /\ [][NextRerun]_vars

\* the calls of the second run
SecondRunCalls ==
    LET k == CHOOSE i \in DOMAIN calls : IsRerun(calls[i])
    IN  SubSeq(calls, k + 1, Len(calls))

\* C22: a second run that resolves the session issues no play command and
\* no termination, and ends ALREADY_COMPLIANT or NOT_HIGH_QUALITY, in every
\* selection mode.
C22_RerunDoesNotSwitch ==
    Rerunning /\ ctx.present =>
        /\ SelectSeq(SecondRunCalls, IsPlayCall) = <<>>
        /\ SelectSeq(SecondRunCalls, IsTerminationCall) = <<>>
        /\ pc = "done" => outcome \in {"ALREADY_COMPLIANT", "NOT_HIGH_QUALITY"}

----------------------------------------------------------------------------
(* The invocation when every collaborator call returns or raises: main is *)
(* sequential, so a step that can be taken is taken                       *)

\* the 4K SDR session with one rendition, part of the way through the item
P_tv_4k_resumed == Sess("r1", "k1", "s1", "alice", "m1", "TV", "10.0.0.5", "32500", 5000,
                        Media_4kSdr_only, TRUE)

LiveLists == { <<>>, <<P_tv_4k_only>>, <<P_tv_4k_resumed>>, <<P_other, P_tv_4k_resumed>>,
               <<P_broken_media>> }

LiveConfigs ==
    { Config(UniformKill(TRUE), TRUE, FALSE), Config(UniformKill(FALSE), FALSE, TRUE) }

InitLive == InitWith(LiveConfigs)

NextLive == Pipeline(ToggleInputs, LiveLists, ToggleItems, ToggleOutcomes)

SpecLive == InitLive /\ [][NextLive]_vars /\ WF_vars(NextLive)

\* the place of each stage in main
StageRank(p) ==
    IF p = "parse" THEN 0
    ELSE IF p = "gate" THEN 1
    ELSE IF p = "connect" THEN 2
    ELSE IF p = "find_session" THEN 3
    ELSE IF p = "session_not_found" THEN 4
    ELSE IF p = "classify" THEN 5
    ELSE IF p = "select" THEN 6
    ELSE IF p = "fetch" THEN 7
    ELSE IF p = "find_client" THEN 8
    ELSE IF p = "switch" THEN 9
    ELSE IF p = "seek" THEN 10
    ELSE IF p \in {"failed", "raised"} THEN 11
    ELSE 12

LocatorOps == {"clients", "client", "PlexClient_proxy", "PlexClient_direct"}

\* every step goes on to a later stage, or is one more query of the session
\* lookup, or one more seek
StepAdvances ==
    \/ StageRank(pc') > StageRank(pc)
    \/ pc = "find_session" /\ pc' = pc /\ attempt' = attempt + 1
    \/ pc = "seek" /\ pc' = pc /\ seek_attempt' = seek_attempt + 1

CallBounds ==
    /\ CountCalls("sessions") <= SESSION_LOOKUP_RETRIES
    /\ attempt <= SESSION_LOOKUP_RETRIES
    /\ CountCalls("seekTo") <= SEEK_RETRIES
    /\ seek_attempt <= SEEK_RETRIES
    /\ CountCalls("playMedia") <= 1
    /\ \A i, j \in DOMAIN calls :
          i < j /\ calls[i].op \in LocatorOps /\ calls[i].op = calls[j].op
             => calls[i].arg # calls[j].arg

\* C23: every invocation reaches a terminal outcome; on the way the session
\* lookup makes at most SESSION_LOOKUP_RETRIES queries, the selection runs
\* at most once over the session item and once over the catalog item, the
\* client lookup makes each call at most once per identifier, at most
\* SEEK_RETRIES seeks are tried, and no stage is entered again.
C23_Terminates ==
    /\ <>(pc = "done" /\ outcome # "NONE")
    /\ []CallBounds
    /\ [][StepAdvances]_vars

\* every query of the lookup and every seek was needed, then SWITCHED
C23_Witness ==
    /\ pc = "done" /\ outcome = "SWITCHED"
    /\ CountCalls("sessions") = SESSION_LOOKUP_RETRIES
    /\ CountCalls("seekTo") = SEEK_RETRIES

----------------------------------------------------------------------------
(* classify_dynamic_range on its own: applied to an input, then to its own *)
(* result                                                                  *)

RangeCores ==
    { <<>>, S_sdr, S_hdr, S_hlg, S_dv, S_dovi, S_dolby, S_vision, S_dolby_vision,
      S_unknown, S_none, <<"P","Q">>, <<"H","D","R","1","0">>,
      <<"S","D","R"," ","D","O","V","I">>, <<"D","V","X">>, <<"H","L","G"," ","D","V">>,
      <<"H","D","R"," ","V","I","S","I","O","N">>, <<"N","O","N","E"," ","X">>,
      <<"H","D","R"," ","S","D","R">> }

RangePads == { <<>>, <<" ">> }

RangeInputs ==
    {NoneChars} \cup
    { l \o c \o r : l \in RangePads, r \in RangePads,
                    c \in RangeCores \cup {str_lower(k) : k \in RangeCores} }

InitRange ==
    /\ cfg = Config(UniformKill(TRUE), TRUE, FALSE)
    /\ pc = "classify_dynamic_range"
    /\ cur \in {<<None, NoneInt, dr>> : dr \in RangeInputs}
    /\ ev = NoEvent
    /\ token = None
    /\ attempt = 0
    /\ last_err = FALSE
    /\ sessions = <<>>
    /\ ctx = NoCtx
    /\ item = NoItem
    /\ target = NoTarget
    /\ client = NoClient
    /\ seek_attempt = 0
    /\ calls = <<>>
    /\ stage = "none"
    /\ outcome = "NONE"
    /\ exit_code = NoneInt

\* classify_dynamic_range(dr), first on the input and then on what it returned
ClassifyRange ==
    /\ pc = "classify_dynamic_range"
    /\ Len(calls) < 2
    /\ LET dr == IF calls = <<>> THEN cur[3] ELSE calls[Len(calls)].res
       IN  calls' = Append(calls, Call("classify_dynamic_range", dr, classify_dynamic_range(dr)))
    /\ UNCHANGED <<cfg, ev, token, attempt, last_err, sessions, ctx, cur, item, target,
                   client, seek_attempt, stage, outcome, exit_code, pc>>

NextRange == ClassifyRange

SpecRange == InitRange /\ [][NextRange]_vars

RangeClasses == {S_sdr, S_hdr, S_dolby_vision, S_unknown}

\* the rules in the stated order, each a test on the upper-cased, trimmed
\* input and the class it gives; the last one applies to everything
StatedRules(s) ==
    << <<s = <<>> \/ s = S_none \/ s = S_unknown, S_unknown>>,
       <<str_in(S_sdr, s), S_sdr>>,
       <<str_in(S_dovi, s) \/ str_in(S_dolby, s) \/ str_in(S_vision, s) \/ s = S_dv,
         S_dolby_vision>>,
       <<str_in(S_hdr, s) \/ str_in(S_hlg, s), S_hdr>>,
       <<TRUE, S_hdr>> >>

FirstRuleClass(dr) ==
    LET rules == StatedRules(str_strip(str_upper(IF dr = NoneChars THEN <<>> ELSE dr)))
        first == CHOOSE i \in DOMAIN rules :
                     rules[i][1] /\ \A j \in DOMAIN rules : rules[j][1] => i <= j
    IN  rules[first][2]

\* C24: classify_dynamic_range returns for every input exactly one of SDR,
\* HDR, DOLBY VISION and UNKNOWN, the class of the first rule that applies to
\* the upper-cased, trimmed input in the order empty/NONE/UNKNOWN, contains
\* SDR, contains DOVI, DOLBY or VISION or equals DV, contains HDR or HLG,
\* anything else; applied to its own result it returns that result.
C24_ClassifyTotalIdempotent ==
    pc = "classify_dynamic_range" =>
        /\ \A i \in DOMAIN calls :
              /\ calls[i].res \in RangeClasses
              /\ calls[i].res = FirstRuleClass(calls[i].arg)
        /\ Len(calls) = 2 => calls[2].arg = calls[1].res /\ calls[2].res = calls[1].res

\* " sdr dovi" is SDR by the second rule, and stays SDR
C24_Witness ==
    /\ pc = "classify_dynamic_range"
    /\ Len(calls) = 2
    /\ cur[3] = <<" ","s","d","r"," ","d","o","v","i">>
    /\ calls[1].res = S_sdr
    /\ calls[2].res = S_sdr

----------------------------------------------------------------------------
(* The seeks that follow the play command *)

SeekPositions == {i \in DOMAIN calls : calls[i].op = "seekTo"}

PlayPositions(r) == {i \in DOMAIN calls : calls[i].op = "playMedia" /\ calls[i].res = r}

\* C25: a seek is issued only when the resume offset is not zero and only
\* after the play command has succeeded, at most SEEK_RETRIES times, and
\* none after a seek that succeeded; with a zero offset none is issued.
C25_SeekOnlyToResume ==
    /\ \A i \in SeekPositions :
          /\ ctx.present /\ ctx.view_offset_ms # 0
          /\ calls[i].arg = ctx.view_offset_ms
          /\ \E p \in PlayPositions("ok") : p < i
          /\ \A j \in SeekPositions : j < i => calls[j].res # "ok"
    /\ Cardinality(SeekPositions) <= SEEK_RETRIES
    /\ PlayPositions("raise") # {} => SeekPositions = {}
    /\ ctx.present /\ ctx.view_offset_ms = 0 => SeekPositions = {}

\* two seeks failed and the third, the last allowed, succeeded
C25_Witness ==
    /\ pc = "done" /\ outcome = "SWITCHED"
    /\ Cardinality(SeekPositions) = SEEK_RETRIES
    /\ LastCall.op = "seekTo" /\ LastCall.res = "ok"
    /\ ctx.view_offset_ms > 0

----------------------------------------------------------------------------
(* How often main terminates and switches *)

FailureStages == {"connect", "session", "no_fallback", "client", "switch"}

BenignOutcomes == {"EXEMPT", "NOT_TRANSCODING", "NOT_HIGH_QUALITY", "ALREADY_COMPLIANT"}

OpPositions(op) == {i \in DOMAIN calls : calls[i].op = op}

\* one pass over the termination methods: each at most once, Tautulli before
\* stop() before the raw request
OnePass ==
    /\ \A op \in TerminationOps : Cardinality(OpPositions(op)) <= 1
    /\ \A i \in OpPositions("terminate_session") :
          \A j \in OpPositions("stop") \cup OpPositions("terminate_raw") : i < j
    /\ \A i \in OpPositions("stop") : \A j \in OpPositions("terminate_raw") : i < j

\* C26: an invocation makes at most one pass over the termination methods
\* and at most one play command; it attempts a termination only at one of
\* the five failure stages, never when it ends as EXEMPT, NOT_TRANSCODING,
\* NOT_HIGH_QUALITY or ALREADY_COMPLIANT, and never after the play command
\* succeeded.
C26_AtMostOnce ==
    /\ OnePass
    /\ Cardinality(OpPositions("playMedia")) <= 1
    /\ outcome = "TERMINATED" => stage \in FailureStages /\ kill_toggle(stage)
    /\ ~NoTerminationCall =>
          pc = "done" /\ outcome = "TERMINATED" /\ stage \in FailureStages
    /\ outcome \in BenignOutcomes => NoTerminationCall /\ stage = "none"
    /\ PlayEnded("ok") => NoTerminationCall /\ outcome # "TERMINATED"

\* the play command failed and the pass went through its three methods
C26_Witness ==
    /\ pc = "done" /\ outcome = "TERMINATED" /\ stage = "switch"
    /\ PlayEnded("raise")
    /\ \A op \in TerminationOps : Cardinality(OpPositions(op)) = 1

----------------------------------------------------------------------------
(* The already-compliant check of main *)

\* main has classified the current rendition
Classified == ctx.present /\ cur # NoCurrent /\ pc \notin {"classify", "raised"}

\* C27: ALREADY_COMPLIANT is never reached: whenever the current rendition
\* has a known height below MAX_ALLOWED_HEIGHT and class SDR, the quality
\* test has failed and the invocation has ended as NOT_HIGH_QUALITY without
\* reaching the fallback selection.
C27_AlreadyCompliantDead ==
    /\ outcome # "ALREADY_COMPLIANT"
    /\ Classified /\ already_compliant(cur) =>
          /\ ~is_high_quality(cur[2], cur[3])
          /\ pc = "done" /\ outcome = "NOT_HIGH_QUALITY"
          /\ item = NoItem /\ target = NoTarget

\* a 1080 SDR rendition ended as NOT_HIGH_QUALITY
C27_Witness ==
    /\ pc = "done" /\ outcome = "NOT_HIGH_QUALITY"
    /\ cur[2] = 1080 /\ classify_dynamic_range(cur[3]) = S_sdr
    /\ already_compliant(cur)

----------------------------------------------------------------------------
(* A termination without anything that names the session *)

\* the failure came before a session was resolved, and the event names none
Unaddressed ==
    /\ stage \in {"connect", "session"}
    /\ ev.parsed /\ ~Truthy(ev.session_key) /\ ~Truthy(ev.session_id)

\* C28: a termination attempted with no resolved session and an event
\* without session key and session id sends no request, neither to Tautulli
\* nor to the server, reports failure, and the invocation exits 0.
C28_UnaddressedTerminationSendsNothing ==
    pc = "done" /\ outcome = "TERMINATED" /\ Unaddressed =>
        /\ NoTerminationCall
        /\ exit_code = 0
        /\ \A tau \in {"unconfigured", "success", "error", "none"},
              stop \in {"ok", "raise"}, raw \in {"ok", "fail"} :
              LET r == terminate_best_effort(ev, escalation_ctx(stage), kill_message(stage),
                                             tau, stop, raw)
              IN  ~r.ok /\ r.calls = <<>>

\* the session was not found with the server connected and the token known
C28_Witness ==
    /\ pc = "done" /\ outcome = "TERMINATED" /\ Unaddressed
    /\ stage = "session" /\ token # None
    /\ kill_toggle(stage)
    /\ NoTerminationCall /\ exit_code = 0

----------------------------------------------------------------------------
(* The item of the play command and the fetch of the library item *)

FetchPositions == OpPositions("fetchItem")

FetchSucceeded == \E i \in FetchPositions : calls[i].res = "ok"

\* the first selection, over the renditions of the session item
FirstSelection ==
    pick_best_fallback_media_index(SessionItem(ctx.session_item), cur[1], cur[2], cur[3])

\* C29: the play command names the item its index was selected from, and the
\* index is one of that item's renditions; the library item is fetched and
\* selected over only when the selection over the session item returned None
\* and the event has a rating key; when the fetch fails the invocation takes
\* the no-fallback stage, decided by KILL_ON_NO_FALLBACK_MEDIA.
C29_PlayNamesSelectedItem ==
    /\ \A i \in OpPositions("playMedia") :
          LET a == calls[i].arg
          IN  /\ a.item = item
              /\ a.mediaIndex + 1 \in DOMAIN a.item.media
              /\ pick_best_fallback_media_index(a.item, cur[1], cur[2], cur[3])
                    = [kind |-> "index", idx |-> a.mediaIndex]
              /\ a.item.source = "session" => a.item = SessionItem(ctx.session_item)
              /\ a.item.source = "library" => FetchSucceeded
    /\ FetchPositions # {} =>
          /\ ctx.present /\ FirstSelection.kind = "none"
          /\ Truthy(ev.rating_key)
          /\ Cardinality(FetchPositions) <= 2
    /\ item.source = "library" => FetchSucceeded
    /\ FetchPositions # {} /\ ~FetchSucceeded =>
          /\ item = SessionItem(ctx.session_item)
          /\ OpPositions("playMedia") = {}
          /\ stage = "no_fallback"
          /\ pc = "done" =>
                outcome = IF cfg.KILL_ON_NO_FALLBACK_MEDIA THEN "TERMINATED"
                          ELSE "FAILURE_IGNORED"

\* the session item had no fallback, the second request for the library item
\* returned it, and the play command names it
C29_Witness ==
    /\ pc = "done" /\ outcome = "SWITCHED"
    /\ Cardinality(FetchPositions) = 2
    /\ item.source = "library"
    /\ \E i \in OpPositions("playMedia") : calls[i].arg.item = item

----------------------------------------------------------------------------
(* Events that do not state a video transcode *)

\* the decision is missing or blank, or lacks the word in every casing
LacksTranscode(dec) ==
    \/ dec = NoneChars
    \/ \A i \in DOMAIN dec : IsSpace(dec[i])
    \/ ~str_in(S_transcode, str_lower(dec))

\* C30: an event whose video decision is missing, blank or without the word
\* transcode ends the invocation at the gate as not transcoding, with no
\* session lookup, no switch and no termination, whatever the server plays.
C30_NoTranscodeNoAction ==
    ev.parsed /\ pc # "gate" /\ LacksTranscode(ev.video_decision) =>
        /\ pc = "done" /\ exit_code = 0
        /\ outcome \in {"NOT_TRANSCODING", "EXEMPT"}
        /\ outcome = "EXEMPT" <=> (Truthy(ev.username) /\ ev.username \in EXEMPT_USERS)
        /\ calls = <<>>
        /\ ~ctx.present /\ token = None /\ stage = "none"

\* an ordinary user's event with the decision "burn" ended at the gate
C30_Witness ==
    /\ pc = "done" /\ outcome = "NOT_TRANSCODING"
    /\ ev.video_decision = <<"b","u","r","n">>
    /\ calls = <<>>

----------------------------------------------------------------------------
(* Missing and blank identifiers in the session resolution *)

NonEmpty(v) == v # None /\ v # ""

\* the criterion as stated: both values are there and they are equal
Counts(ev_value, session_value) ==
    NonEmpty(ev_value) /\ NonEmpty(session_value) /\ ev_value = session_value

\* the scores of the criteria a session satisfies for the event
StatedScores(e, s) ==
    {sc \in {0, 1, 5, 10} :
        \/ sc = 0 /\ Counts(e.session_key, s.sessionKey)
        \/ sc = 1 /\ Counts(e.session_id, s.sessionId)
        \/ sc = 5 /\ Counts(e.rating_key, s.ratingKey) /\ Counts(e.username, s.username)
        \/ sc = 10 /\ Counts(e.rating_key, s.ratingKey)
                   /\ Counts(e.machine_id, s.machineIdentifier)}

AllBlank(e) ==
    \A f \in {"rating_key", "machine_id", "username", "session_id", "session_key"} :
        ~NonEmpty(e[f])

\* C31: a missing or blank identifier never produces a match: the returned
\* session satisfies a criterion whose two values are non-empty and equal,
\* its score is the least of those it satisfies and one of 0, 1, 5 and 10, a
\* blank session key of the event matches no session, and an event with
\* every identifier blank resolves no session on any list.
C31_BlankNeverMatches ==
    /\ ctx.present =>
          LET s == ctx.session_item
              sc == match_score(ev, s)
          IN  /\ sc \in {0, 1, 5, 10}
              /\ StatedScores(ev, s) # {}
              /\ sc \in StatedScores(ev, s) /\ \A x \in StatedScores(ev, s) : sc <= x
              /\ sc = 0 => NonEmpty(ev.session_key) /\ NonEmpty(s.sessionKey)
    /\ \A k \in DOMAIN sessions :
          /\ StatedScores(ev, sessions[k]) = {} => match_score(ev, sessions[k]) = 1000
          /\ ~NonEmpty(ev.session_key) /\ ~NonEmpty(sessions[k].sessionKey) =>
                match_score(ev, sessions[k]) # 0
    /\ AllBlank(ev) =>
          /\ ~ctx.present
          /\ pc \in {"find_session", "session_not_found"}
          /\ \A k \in DOMAIN sessions : match_score(ev, sessions[k]) = 1000

\* every query returned the session without session key and session id to an
\* event that gives every identifier as the empty string
C31_Witness ==
    /\ pc = "session_not_found"
    /\ AllBlank(ev) /\ ev.session_id = ""
    /\ sessions = <<P_bare>>
    /\ CountCalls("sessions") = SESSION_LOOKUP_RETRIES

====
